---- MODULE Spec2Model ----
(***************************************************************************)
(* A model of obsidian_to_denote/converter.py: ObsidianToDenoteConverter   *)
(* and its directory walk.  Text is a sequence of one-character strings,   *)
(* so that the regular-expression steps of the converter are computed      *)
(* character by character, as re does.                                     *)
(***************************************************************************)
EXTENDS Integers, Sequences, FiniteSets, TLC

VARIABLES
    fn,               \* the method under call
    arg,              \* its arguments (a record)
    ret,              \* its result; NoRet before the call returns
    file_mapping,     \* self.file_mapping, in insertion order
    asset_state,      \* self.asset_mapping, with the copies and calls made
    md_files,         \* the md_files of convert_directory; None before the glob
    idx,              \* how many of md_files the loop has been through
    converted_files,  \* the converted_files of convert_directory
    out_files,        \* the files written, in order
    dirs_made         \* the directories made under the output directory

vars == <<fn, arg, ret, file_mapping, asset_state, md_files, idx,
          converted_files, out_files, dirs_made>>

\* the variables of the converter and of the walk
walk_vars == <<file_mapping, asset_state, md_files, idx, converted_files,
               out_files, dirs_made>>

(***************************************************************************)
(* Python values.                                                          *)
(***************************************************************************)
None == [t |-> "none"]
PyStr(s) == [t |-> "str", s |-> s]
NoRet == [t |-> "noret"]

\* `not text` for the values a text argument takes: None and '' are falsy
Falsy(v) == v = None \/ (v.t = "str" /\ v.s = <<>>)

(***************************************************************************)
(* Characters.                                                             *)
(***************************************************************************)
LowerChars == {"a", "b", "c", "d", "e", "f", "g", "h", "i", "j", "k", "l", "m",
               "n", "o", "p", "q", "r", "s", "t", "u", "v", "w", "x", "y", "z"}
UpperChars == {"A", "B", "C", "D", "E", "F", "G", "H", "I", "J", "K", "L", "M",
               "N", "O", "P", "Q", "R", "S", "T", "U", "V", "W", "X", "Y", "Z"}
DigitChars == {"0", "1", "2", "3", "4", "5", "6", "7", "8", "9"}
\* re's \s on ASCII text
SpaceChars == {" ", "\n", "\t"}
\* re's \w on ASCII text
WordChars == LowerChars \cup UpperChars \cup DigitChars \cup {"_"}
\* two characters outside ASCII: e-acute, which NFKD decomposes into e and a
\* combining accent, and sharp s, which has no decomposition
EAcute == "é"
SharpS == "ß"

\* str.lower() on one ASCII character
Lower(c) ==
    CASE c = "A" -> "a" [] c = "B" -> "b" [] c = "C" -> "c" [] c = "D" -> "d"
      [] c = "E" -> "e" [] c = "F" -> "f" [] c = "G" -> "g" [] c = "H" -> "h"
      [] c = "I" -> "i" [] c = "J" -> "j" [] c = "K" -> "k" [] c = "L" -> "l"
      [] c = "M" -> "m" [] c = "N" -> "n" [] c = "O" -> "o" [] c = "P" -> "p"
      [] c = "Q" -> "q" [] c = "R" -> "r" [] c = "S" -> "s" [] c = "T" -> "t"
      [] c = "U" -> "u" [] c = "V" -> "v" [] c = "W" -> "w" [] c = "X" -> "x"
      [] c = "Y" -> "y" [] c = "Z" -> "z" [] OTHER -> c

(***************************************************************************)
(* Sequence helpers (str methods).                                         *)
(***************************************************************************)
RECURSIVE Concat(_)
\* ''.join(parts)
Concat(parts) ==
    IF parts = <<>> THEN <<>> ELSE Head(parts) \o Concat(Tail(parts))

RECURSIVE Join(_, _)
\* sep.join(parts)
Join(sep, parts) ==
    IF parts = <<>> THEN <<>>
    ELSE IF Len(parts) = 1 THEN parts[1]
    ELSE parts[1] \o sep \o Join(sep, Tail(parts))

\* s[i:j] with Python's 0-based, end-exclusive indices, 0 <= i
Slice(s, i, j) ==
    IF j <= i THEN <<>> ELSE SubSeq(s, i + 1, IF j > Len(s) THEN Len(s) ELSE j)

\* s[i:]
SliceFrom(s, i) == Slice(s, i, Len(s))

\* whether p occurs in s at 0-based offset i
MatchAt(s, p, i) ==
    /\ i >= 0
    /\ i + Len(p) <= Len(s)
    /\ \A k \in 1..Len(p) : s[i + k] = p[k]

\* s.startswith(p)
StartsWith(s, p) == MatchAt(s, p, 0)

\* s.endswith(p)
EndsWith(s, p) == MatchAt(s, p, Len(s) - Len(p))

\* s.find(p, start): the least offset >= start where p occurs, -1 when none
Find(s, p, start) ==
    LET hits == {i \in start..(Len(s) - Len(p)) : MatchAt(s, p, i)}
    IN IF hits = {} THEN -1 ELSE CHOOSE i \in hits : \A j \in hits : i <= j

(***************************************************************************)
(* slugify                                                                 *)
(***************************************************************************)
RECURSIVE AsciiFold(_)
\* unicodedata.normalize('NFKD', text).encode('ascii', 'ignore').decode('ascii')
AsciiFold(s) ==
    IF s = <<>> THEN <<>>
    ELSE (IF Head(s) = EAcute THEN <<"e">>
          ELSE IF Head(s) = SharpS THEN <<>>
          ELSE <<Head(s)>>) \o AsciiFold(Tail(s))

RECURSIVE KeepSlugChars(_)
\* re.sub(r'[^\w\s-]', '', text.lower())
KeepSlugChars(s) ==
    IF s = <<>> THEN <<>>
    ELSE (IF Lower(Head(s)) \in WordChars \cup SpaceChars \cup {"-"}
          THEN <<Lower(Head(s))>>
          ELSE <<>>) \o KeepSlugChars(Tail(s))

RECURSIVE CollapseHyphens(_)
\* re.sub(r'[-\s]+', '-', text)
CollapseHyphens(s) ==
    IF s = <<>> THEN <<>>
    ELSE IF Head(s) \in SpaceChars \cup {"-"}
         THEN IF Len(s) > 1 /\ s[2] \in SpaceChars \cup {"-"}
              THEN CollapseHyphens(Tail(s))
              ELSE <<"-">> \o CollapseHyphens(Tail(s))
         ELSE <<Head(s)>> \o CollapseHyphens(Tail(s))

RECURSIVE LStrip(_, _)
\* s.lstrip(chars)
LStrip(s, chars) ==
    IF s # <<>> /\ Head(s) \in chars THEN LStrip(Tail(s), chars) ELSE s

RECURSIVE RStrip(_, _)
\* s.rstrip(chars)
RStrip(s, chars) ==
    IF s # <<>> /\ s[Len(s)] \in chars
    THEN RStrip(SubSeq(s, 1, Len(s) - 1), chars)
    ELSE s

\* s.strip(chars)
Strip(s, chars) == RStrip(LStrip(s, chars), chars)

Untitled == <<"u", "n", "t", "i", "t", "l", "e", "d">>

\* ObsidianToDenoteConverter.slugify; text is None or a str
slugify(text) ==
    IF Falsy(text) THEN Untitled
    ELSE LET folded == AsciiFold(text.s)
             kept == KeepSlugChars(folded)
             result == Strip(CollapseHyphens(kept), {"-"})
         IN IF result # <<>> THEN result ELSE Untitled

(***************************************************************************)
(* yaml.safe_load, on the subset of YAML the notes of this model use: a    *)
(* block of `key: value` lines whose values are plain words, flow lists of *)
(* plain words ([a, b]) or empty; blank lines and # comment lines; an      *)
(* optional leading --- document marker.  Any other line (an unclosed [,   *)
(* for one) is a YAMLError.                                                *)
(***************************************************************************)
YAMLError == [t |-> "YAMLError"]
PyList(l) == [t |-> "list", l |-> l]
\* a dict: d maps each key to its value, keys lists the keys in insertion order
PyDict(d, keys) == [t |-> "dict", d |-> d, keys |-> keys]
EmptyDict == PyDict(<<>>, <<>>)

RECURSIVE Split(_, _)
\* s.split(c) for a one-character separator c
Split(s, c) ==
    LET hits == {i \in 1..Len(s) : s[i] = c}
    IN IF hits = {} THEN <<s>>
       ELSE LET i == CHOOSE i \in hits : \A j \in hits : i <= j
            IN <<SubSeq(s, 1, i - 1)>> \o Split(SubSeq(s, i + 1, Len(s)), c)

DashLine == <<"-", "-", "-">>
PlainChars == LowerChars \cup UpperChars \cup DigitChars \cup {" ", "-", "_"}

IsPlain(s) == \A i \in 1..Len(s) : s[i] \in PlainChars

\* a line YAML skips: blank, or a comment
YamlSkipped(line) ==
    LET l == LStrip(line, {" "}) IN l = <<>> \/ Head(l) = "#"

\* the offset of the `:` that ends the key of a `key: value` line, -1 when
\* the line is none
YamlColon(line) ==
    LET i == Find(line, <<":">>, 0)
    IN IF i > 0 /\ IsPlain(Slice(line, 0, i)) /\ line[1] # " "
          /\ (i + 1 = Len(line) \/ line[i + 2] = " ")
       THEN i ELSE -1

RECURSIVE YamlItems(_)
\* the items of a flow list, each a plain word
YamlItems(parts) ==
    IF parts = <<>> THEN <<>>
    ELSE <<PyStr(Strip(Head(parts), {" "}))>> \o YamlItems(Tail(parts))

\* the value of a `key: value` line: None, a str, a list of str, or YAMLError
YamlValue(text) ==
    LET v == Strip(text, {" "})
    IN IF v = <<>> THEN None
       ELSE IF Head(v) = "["
       THEN LET inner == Strip(Slice(v, 1, Len(v) - 1), {" "})
                parts == Split(inner, ",")
            IN IF Len(v) < 2 \/ v[Len(v)] # "]" THEN YAMLError
               ELSE IF inner = <<>> THEN PyList(<<>>)
               ELSE IF \A k \in 1..Len(parts) :
                          IsPlain(parts[k]) /\ Strip(parts[k], {" "}) # <<>>
               THEN PyList(YamlItems(parts))
               ELSE YAMLError
       ELSE IF IsPlain(v) THEN PyStr(v)
       ELSE YAMLError

RECURSIVE YamlEntries(_, _, _)
\* the mapping of the `key: value` lines, a later key replacing an earlier
\* one; YAMLError when a line is no such line or its value is malformed
YamlEntries(lines, d, keys) ==
    IF lines = <<>> THEN PyDict(d, keys)
    ELSE IF YamlSkipped(Head(lines)) THEN YamlEntries(Tail(lines), d, keys)
    ELSE LET line == Head(lines)
             i == YamlColon(line)
             key == Slice(line, 0, i)
             val == YamlValue(SliceFrom(line, i + 1))
         IN IF i = -1 \/ val = YAMLError THEN YAMLError
            ELSE YamlEntries(Tail(lines),
                    [k \in DOMAIN d \cup {key} |-> IF k = key THEN val ELSE d[k]],
                    IF key \in DOMAIN d THEN keys ELSE Append(keys, key))

\* yaml.safe_load(yaml_content): None for an empty document, a dict, or YAMLError
safe_load(yaml_content) ==
    LET lines == Split(yaml_content, "\n")
        docs == IF lines[1] = DashLine THEN Tail(lines) ELSE lines
    IN IF \A k \in 1..Len(docs) : YamlSkipped(docs[k]) THEN None
       ELSE YamlEntries(docs, <<>>, <<>>)

(***************************************************************************)
(* extract_yaml_frontmatter                                                *)
(***************************************************************************)
FrontmatterOpen == <<"-", "-", "-", "\n">>
FrontmatterClose == <<"\n", "-", "-", "-", "\n">>

\* the same, with remaining_content assigned before the block is parsed,
\* so that a YAMLError leaves the body cut
extract_yaml_frontmatter_cut(content) ==
    IF StartsWith(content, FrontmatterOpen)
    THEN LET end_idx == Find(content, FrontmatterClose, 4)
             loaded == safe_load(Slice(content, 4, end_idx))
         IN IF end_idx = -1
            THEN [metadata |-> EmptyDict, remaining_content |-> content]
            ELSE IF loaded = YAMLError
            THEN [metadata |-> EmptyDict,
                  remaining_content |-> SliceFrom(content, end_idx + 5)]
            ELSE [metadata |-> loaded,
                  remaining_content |-> SliceFrom(content, end_idx + 5)]
    ELSE [metadata |-> EmptyDict, remaining_content |-> content]

\* ObsidianToDenoteConverter.extract_yaml_frontmatter.  content.index raises
\* ValueError when there is no closing line (end_idx = -1 here) and
\* safe_load raises YAMLError; the except clause catches both, with metadata
\* and remaining_content still at their initial values.
extract_yaml_frontmatter(content) ==
    IF StartsWith(content, FrontmatterOpen)
    THEN LET end_idx == Find(content, FrontmatterClose, 4)
             loaded == safe_load(Slice(content, 4, end_idx))
         IN IF end_idx = -1 \/ loaded = YAMLError
            THEN [metadata |-> EmptyDict, remaining_content |-> content]
            ELSE [metadata |-> loaded,
                  remaining_content |-> SliceFrom(content, end_idx + 5)]
    ELSE [metadata |-> EmptyDict, remaining_content |-> content]

(***************************************************************************)
(* Python values of the metadata.                                          *)
(***************************************************************************)
\* bool(v) for None, str, list and dict
Truthy(v) ==
    CASE v.t = "none" -> FALSE
      [] v.t = "str" -> v.s # <<>>
      [] v.t = "list" -> v.l # <<>>
      [] v.t = "dict" -> DOMAIN v.d # {}
      [] OTHER -> TRUE

\* str(v) for None and str
Str(v) == IF v.t = "str" THEN v.s ELSE <<"N", "o", "n", "e">>

KeyTitle == <<"t", "i", "t", "l", "e">>
KeyAliases == <<"a", "l", "i", "a", "s", "e", "s">>
KeyTags == <<"t", "a", "g", "s">>
KeyCreated == <<"c", "r", "e", "a", "t", "e", "d">>

\* `key in metadata`, for a dict
HasKey(metadata, key) == key \in DOMAIN metadata.d

(***************************************************************************)
(* datetime                                                                *)
(***************************************************************************)
ValueError == [t |-> "ValueError"]
DateTime(y, mo, d, h, mi, sec) ==
    [t |-> "datetime", year |-> y, month |-> mo, day |-> d,
     hour |-> h, minute |-> mi, second |-> sec]

Digits == <<"0", "1", "2", "3", "4", "5", "6", "7", "8", "9">>
DigitVal(c) == CHOOSE n \in 0..9 : Digits[n + 1] = c

RECURSIVE ParseInt(_)
\* int(s) for a string of digits
ParseInt(s) ==
    IF s = <<>> THEN 0 ELSE 10 * ParseInt(SubSeq(s, 1, Len(s) - 1)) + DigitVal(s[Len(s)])

IsDigits(s) == \A i \in 1..Len(s) : s[i] \in DigitChars

DaysInMonth(y, mo) ==
    IF mo = 2
    THEN (IF y % 4 = 0 /\ (y % 100 # 0 \/ y % 400 = 0) THEN 29 ELSE 28)
    ELSE IF mo \in {4, 6, 9, 11} THEN 30 ELSE 31

\* datetime.fromisoformat(s) for the date form YYYY-MM-DD (midnight of that
\* day); ValueError for a string that is no ISO date
fromisoformat(s) ==
    IF /\ Len(s) = 10
       /\ s[5] = "-" /\ s[8] = "-"
       /\ IsDigits(SubSeq(s, 1, 4)) /\ IsDigits(SubSeq(s, 6, 7)) /\ IsDigits(SubSeq(s, 9, 10))
    THEN LET y == ParseInt(SubSeq(s, 1, 4))
             mo == ParseInt(SubSeq(s, 6, 7))
             d == ParseInt(SubSeq(s, 9, 10))
         IN IF y >= 1 /\ mo \in 1..12 /\ d >= 1 /\ d <= DaysInMonth(y, mo)
            THEN DateTime(y, mo, d, 0, 0, 0)
            ELSE ValueError
    ELSE ValueError

RECURSIVE IntStr(_)
\* str(n), n >= 0
IntStr(n) == IF n < 10 THEN <<Digits[n + 1]>> ELSE IntStr(n \div 10) \o <<Digits[(n % 10) + 1]>>

RECURSIVE ZeroPad(_, _)
\* s.zfill(width)
ZeroPad(s, width) == IF Len(s) >= width THEN s ELSE ZeroPad(<<"0">> \o s, width)

\* created_time.strftime('%Y%m%dT%H%M%S').  %m, %d, %H, %M and %S are two
\* digits; %Y is the C library's: glibc writes a year below 1000 without
\* leading zeros, other libraries pad it to four digits (pad_year).
strftime(dt, pad_year) ==
    (IF pad_year THEN ZeroPad(IntStr(dt.year), 4) ELSE IntStr(dt.year))
    \o ZeroPad(IntStr(dt.month), 2) \o ZeroPad(IntStr(dt.day), 2) \o <<"T">>
    \o ZeroPad(IntStr(dt.hour), 2) \o ZeroPad(IntStr(dt.minute), 2)
    \o ZeroPad(IntStr(dt.second), 2)

(***************************************************************************)
(* generate_denote_filename                                                *)
(***************************************************************************)
\* the number of whitespace characters of s from 0-based offset i on
RECURSIVE SpaceRun(_, _)
SpaceRun(s, i) ==
    IF i < Len(s) /\ s[i + 1] \in SpaceChars THEN 1 + SpaceRun(s, i + 1) ELSE 0

\* the number of word characters of s from 0-based offset i on
RECURSIVE WordRun(_, _)
WordRun(s, i) ==
    IF i < Len(s) /\ s[i + 1] \in WordChars THEN 1 + WordRun(s, i + 1) ELSE 0

\* the offset of the end of the line that holds offset i: of the next
\* newline at or after i, or of the end of the text
LineEnd(s, i) ==
    LET e == Find(s, <<"\n">>, i) IN IF e = -1 THEN Len(s) ELSE e

\* the match of r'^#\s+(.+)$' (re.MULTILINE) that starts at offset p, as the
\* offset where group 1 starts; -1 when there is none.  \s+ is greedy and
\* also takes newlines; it gives characters back until one that is no
\* newline follows, and .+ then runs to the end of that line.
HeadingGroupAt(s, p) ==
    IF /\ p < Len(s) /\ s[p + 1] = "#"
       /\ (p = 0 \/ s[p] = "\n")
    THEN LET w == SpaceRun(s, p + 1)
             ks == {k \in 1..w : p + 1 + k < Len(s) /\ s[p + 1 + k + 1] # "\n"}
         IN IF ks = {} THEN -1
            ELSE p + 1 + (CHOOSE k \in ks : \A j \in ks : j <= k)
    ELSE -1

\* re.search(r'^#\s+(.+)$', content, re.MULTILINE): group 1 of the first
\* match as a str, None without a match
heading_match(content) ==
    LET ps == {p \in 0..(Len(content) - 1) : HeadingGroupAt(content, p) # -1}
    IN IF ps = {} THEN None
       ELSE LET p == CHOOSE p \in ps : \A q \in ps : p <= q
                g == HeadingGroupAt(content, p)
            IN PyStr(Slice(content, g, LineEnd(content, g)))

RECURSIVE FindAllTags(_, _)
\* re.findall(r'#(\w+)', content), scanning from offset i
FindAllTags(s, i) ==
    LET hits == {k \in i..(Len(s) - 1) : s[k + 1] = "#" /\ WordRun(s, k + 1) > 0}
    IN IF hits = {} THEN <<>>
       ELSE LET k == CHOOSE k \in hits : \A j \in hits : k <= j
            IN <<Slice(s, k + 1, k + 1 + WordRun(s, k + 1))>>
               \o FindAllTags(s, k + 1 + WordRun(s, k + 1))

RECURSIVE TruthyStrs(_)
\* [str(tag) for tag in tags if tag]
TruthyStrs(l) ==
    IF l = <<>> THEN <<>>
    ELSE (IF Truthy(Head(l)) THEN <<Str(Head(l))>> ELSE <<>>) \o TruthyStrs(Tail(l))

\* the title of generate_denote_filename (lines 89-110)
denote_title(stem, metadata, content) ==
    LET from_meta ==
            IF Truthy(metadata)
            THEN IF HasKey(metadata, KeyTitle) /\ Truthy(metadata.d[KeyTitle])
                 THEN Str(metadata.d[KeyTitle])
                 ELSE IF HasKey(metadata, KeyAliases) /\ Truthy(metadata.d[KeyAliases])
                 THEN (IF metadata.d[KeyAliases].t = "list"
                       THEN Str(metadata.d[KeyAliases].l[1])
                       ELSE IF metadata.d[KeyAliases].t = "str"
                       THEN metadata.d[KeyAliases].s
                       ELSE stem)
                 ELSE stem
            ELSE stem
        heading == heading_match(content)
        title == IF from_meta = stem /\ content # <<>> /\ heading # None
                 THEN heading.s
                 ELSE from_meta
    IN IF title = <<>> THEN Untitled ELSE title

\* the tag list of generate_denote_filename before it is made a set
\* (lines 115-125, and the filter of line 128)
denote_tag_list(metadata, content) ==
    LET from_meta ==
            IF Truthy(metadata) /\ HasKey(metadata, KeyTags)
            THEN IF metadata.d[KeyTags].t = "list" THEN TruthyStrs(metadata.d[KeyTags].l)
                 ELSE IF metadata.d[KeyTags].t = "str" THEN <<metadata.d[KeyTags].s>>
                 ELSE <<>>
            ELSE <<>>
        inline == IF content # <<>> THEN FindAllTags(content, 0) ELSE <<>>
    IN SelectSeq(from_meta \o inline, LAMBDA tag : tag # <<>>)

\* the set of the items of a list
items_of(l) == {l[i] : i \in 1..Len(l)}

\* set(tags)
denote_tag_set(metadata, content) == items_of(denote_tag_list(metadata, content))

\* the orders in which list(set) may enumerate S: the iteration order of a
\* set of str depends on the process's hash seed
Orderings(S) ==
    {o \in [1..Cardinality(S) -> S] : \A x \in S : \E i \in 1..Cardinality(S) : o[i] = x}

RECURSIVE SlugifyAll(_)
\* [self.slugify(tag) for tag in tags]
SlugifyAll(tags) ==
    IF tags = <<>> THEN <<>> ELSE <<slugify(PyStr(Head(tags)))>> \o SlugifyAll(Tail(tags))

\* the creation time of generate_denote_filename (lines 77-84)
denote_created_time(mtime, metadata) ==
    IF Truthy(metadata) /\ HasKey(metadata, KeyCreated)
    THEN LET parsed == fromisoformat(Str(metadata.d[KeyCreated]))
         IN IF parsed = ValueError THEN mtime ELSE parsed
    ELSE mtime

ExtOrg == <<".", "o", "r", "g">>
ExtMd == <<".", "m", "d">>

\* generate_denote_filename without the test of line 131: the tag segment
\* is written whether or not there are tags
generate_denote_filename_segment(stem, mtime, metadata, content, output_format, tags, pad_year) ==
    LET created_time == denote_created_time(mtime, metadata)
        timestamp == strftime(created_time, pad_year)
        title == denote_title(stem, metadata, content)
        title_slug == slugify(PyStr(title))
        tags_str == <<"_", "_">> \o Join(<<"_">>, SlugifyAll(tags))
        extension == IF output_format = "org" THEN ExtOrg ELSE ExtMd
    IN [filename |-> timestamp \o <<"-", "-">> \o title_slug \o tags_str \o extension,
        title |-> title,
        tags |-> tags,
        created_time |-> created_time]

\* ObsidianToDenoteConverter.generate_denote_filename.  original_path gives
\* stem (Path(original_path).stem) and mtime (os.stat); tags is the order in
\* which list(set(...)) enumerated the tag set; pad_year is the C library's
\* way with %Y.
generate_denote_filename(stem, mtime, metadata, content, output_format, tags, pad_year) ==
    LET created_time == denote_created_time(mtime, metadata)
        timestamp == strftime(created_time, pad_year)
        title == denote_title(stem, metadata, content)
        title_slug == slugify(PyStr(title))
        tags_str == IF tags # <<>>
                    THEN <<"_", "_">> \o Join(<<"_">>, SlugifyAll(tags))
                    ELSE <<>>
        extension == IF output_format = "org" THEN ExtOrg ELSE ExtMd
    IN [filename |-> timestamp \o <<"-", "-">> \o title_slug \o tags_str \o extension,
        title |-> title,
        tags |-> tags,
        created_time |-> created_time]

(***************************************************************************)
(* convert_links                                                           *)
(***************************************************************************)
\* a path: the directories from the root of the walk, and the file name
PathOf(dirs, name) == [dirs |-> dirs, name |-> name]

\* the 0-based offset of the last c in s, -1 when there is none
RFind(s, c) ==
    LET hits == {i \in 1..Len(s) : s[i] = c}
    IN IF hits = {} THEN -1 ELSE (CHOOSE i \in hits : \A j \in hits : j <= i) - 1

\* Path(name).stem: the name less its last suffix
PathStem(name) ==
    LET i == RFind(name, ".")
    IN IF i > 0 /\ i < Len(name) - 1 THEN Slice(name, 0, i) ELSE name

\* Path(name).suffix
PathSuffix(name) ==
    LET i == RFind(name, ".")
    IN IF i > 0 /\ i < Len(name) - 1 THEN SliceFrom(name, i) ELSE <<>>

\* the number of characters other than ] of s from 0-based offset i on
RECURSIVE NonCloseRun(_, _)
NonCloseRun(s, i) ==
    IF i < Len(s) /\ s[i + 1] # "]" THEN 1 + NonCloseRun(s, i + 1) ELSE 0

\* the length of group 1 of the match of r'\[\[([^\]]+)\]\]' at offset i,
\* 0 when there is no match there
WikiGroupLen(s, i) ==
    LET run == NonCloseRun(s, i + 2)
    IN IF MatchAt(s, <<"[", "[">>, i) /\ run >= 1
          /\ MatchAt(s, <<"]", "]">>, i + 2 + run)
       THEN run ELSE 0

\* the same lookup, taking the mapped file name whole instead of its stem
resolve_link_keep_suffix(link, mapping) ==
    LET hits == {k \in 1..Len(mapping) : PathStem(mapping[k].old.name) = link}
    IN IF hits = {} THEN link
       ELSE mapping[CHOOSE k \in hits : \A j \in hits : k <= j].new

\* the loop over self.file_mapping.items() of replace_link: the Denote stem
\* of the first entry, in insertion order, whose original stem is link
resolve_link(link, mapping) ==
    LET hits == {k \in 1..Len(mapping) : PathStem(mapping[k].old.name) = link}
    IN IF hits = {} THEN link
       ELSE PathStem(mapping[CHOOSE k \in hits : \A j \in hits : k <= j].new)

\* replace_link of convert_links, for either output
replace_link(link_text, mapping, is_org) ==
    LET bar == Find(link_text, <<"|">>, 0)
        link == IF bar # -1 THEN Slice(link_text, 0, bar) ELSE link_text
        desc == IF bar # -1 THEN SliceFrom(link_text, bar + 1) ELSE link_text
        resolved == resolve_link(link, mapping)
    IN IF is_org
       THEN <<"[", "[", "f", "i", "l", "e", ":">> \o resolved \o ExtOrg
            \o <<"]", "[">> \o desc \o <<"]", "]">>
       ELSE <<"[">> \o desc \o <<"]", "(">> \o resolved \o ExtMd \o <<")">>

RECURSIVE SubWikiLinks(_, _, _, _)
\* re.sub(r'\[\[([^\]]+)\]\]', replace_link, content), from offset i on
SubWikiLinks(s, i, mapping, is_org) ==
    LET hits == {k \in i..(Len(s) - 1) : WikiGroupLen(s, k) > 0}
    IN IF hits = {} THEN SliceFrom(s, i)
       ELSE LET k == CHOOSE k \in hits : \A j \in hits : k <= j
                g == WikiGroupLen(s, k)
            IN Slice(s, i, k)
               \o replace_link(Slice(s, k + 2, k + 2 + g), mapping, is_org)
               \o SubWikiLinks(s, k + g + 4, mapping, is_org)

RECURSIVE SubEmbeds(_, _)
\* re.sub(r'!\[\[([^\]]+)\]\]', r'[[file:\1]]', content), from offset i on
SubEmbeds(s, i) ==
    LET hits == {k \in i..(Len(s) - 1) : s[k + 1] = "!" /\ WikiGroupLen(s, k + 1) > 0}
    IN IF hits = {} THEN SliceFrom(s, i)
       ELSE LET k == CHOOSE k \in hits : \A j \in hits : k <= j
                g == WikiGroupLen(s, k + 1)
            IN Slice(s, i, k)
               \o <<"[", "[", "f", "i", "l", "e", ":">> \o Slice(s, k + 3, k + 3 + g)
               \o <<"]", "]">> \o SubEmbeds(s, k + g + 5)

\* ObsidianToDenoteConverter.convert_links
convert_links(content, is_org, preserve_links, mapping) ==
    IF is_org
    THEN SubEmbeds(SubWikiLinks(content, 0, mapping, TRUE), 0)
    ELSE IF ~preserve_links
    THEN SubWikiLinks(content, 0, mapping, FALSE)
    ELSE content

(***************************************************************************)
(* The file system, find_asset and copy_asset.  A directory is the         *)
(* sequence of its names from the file system root; a file is a path       *)
(* PathOf(dirs, name).  fs.files are the files of the vault, fs.markers    *)
(* the directories that hold a .obsidian folder, fs.scan the files in the  *)
(* order a recursive scan of the disk meets them.                          *)
(***************************************************************************)
RECURSIVE JoinNames(_)
JoinNames(names) ==
    IF names = <<>> THEN <<>> ELSE <<"/">> \o Head(names) \o JoinNames(Tail(names))

\* str(path), of an absolute path
PathStr(path) == JoinNames(Append(path.dirs, path.name))

\* whether sequence p is a prefix of sequence d
IsPrefix(p, d) == Len(p) <= Len(d) /\ SubSeq(d, 1, Len(p)) = p

\* the least number of a set of numbers
Least(S) == CHOOSE k \in S : \A j \in S : k <= j

\* the names of file_ref between its slashes, less empty and `.` ones
ref_names(file_ref) ==
    SelectSeq(Split(file_ref, "/"), LAMBDA n : n # <<>> /\ n # <<".">>)

\* the path of a file named by names under base
path_of_names(base, names) ==
    PathOf(base \o SubSeq(names, 1, Len(names) - 1), names[Len(names)])

\* directory / file_ref: the names of file_ref under directory, or from the
\* root when file_ref is absolute; file_ref names a file and has no `..`
JoinRef(directory, file_ref) ==
    path_of_names(IF file_ref # <<>> /\ Head(file_ref) = "/" THEN <<>> ELSE directory,
                  ref_names(file_ref))

\* the vault root of find_asset (lines 189-199): the nearest directory from
\* source_dir upwards, the file system root excluded, that holds .obsidian;
\* source_dir itself when there is none
find_vault_root(source_dir, fs) ==
    LET found == {n \in 1..Len(source_dir) : SubSeq(source_dir, 1, n) \in fs.markers}
    IN IF found = {} THEN source_dir
       ELSE SubSeq(source_dir, 1, CHOOSE n \in found : \A m \in found : m <= n)

\* file_ref.split('|')[0].strip(), then .strip() (lines 202-206)
clean_ref(file_ref) ==
    Strip(IF Find(file_ref, <<"|">>, 0) # -1
          THEN Strip(Split(file_ref, "|")[1], SpaceChars)
          ELSE file_ref, SpaceChars)

\* possible_paths of find_asset (lines 209-221)
possible_paths(ref, current_dir, vault_root) ==
    <<JoinRef(current_dir, ref),
      JoinRef(vault_root, ref),
      JoinRef(Append(vault_root, <<"a", "t", "t", "a", "c", "h", "m", "e", "n", "t", "s">>), ref),
      JoinRef(Append(vault_root, <<"A", "t", "t", "a", "c", "h", "m", "e", "n", "t", "s">>), ref),
      JoinRef(Append(vault_root, <<"a", "s", "s", "e", "t", "s">>), ref),
      JoinRef(Append(vault_root, <<"A", "s", "s", "e", "t", "s">>), ref),
      JoinRef(Append(vault_root, <<"i", "m", "a", "g", "e", "s">>), ref),
      JoinRef(Append(vault_root, <<"I", "m", "a", "g", "e", "s">>), ref),
      JoinRef(Append(vault_root, <<"F", "i", "l", "e", "s">>), ref),
      JoinRef(Append(current_dir, <<"a", "t", "t", "a", "c", "h", "m", "e", "n", "t", "s">>), ref),
      JoinRef(Append(current_dir, <<"a", "s", "s", "e", "t", "s">>), ref)>>

\* the loop of lines 224-227: the first of paths that is a file, or None
first_existing(paths, fs) ==
    LET hits == {k \in 1..Len(paths) : paths[k] \in fs.files}
    IN IF hits # {} THEN paths[Least(hits)] ELSE None

\* the loop of lines 232-235: the first file named search_name that the
\* scan of vault_root meets, or None
rglob_first(vault_root, search_name, fs) ==
    LET found == {k \in 1..Len(fs.scan) :
                    /\ fs.scan[k].name = search_name
                    /\ IsPrefix(vault_root, fs.scan[k].dirs)}
    IN IF found # {} THEN fs.scan[Least(found)] ELSE None

\* path when there is one, searched otherwise
found_or(path, searched) == IF path # None THEN path ELSE searched

\* find_asset once the reference is clean and the vault root known
find_clean(ref, current_dir, vault_root, fs) ==
    found_or(first_existing(possible_paths(ref, current_dir, vault_root), fs),
             rglob_first(vault_root, JoinRef(<<>>, ref).name, fs))

\* ObsidianToDenoteConverter.find_asset: the path found, or None
find_asset(file_ref, source_dir, fs) ==
    find_clean(clean_ref(file_ref), source_dir, find_vault_root(source_dir, fs), fs)

AssetsDir == <<"a", "s", "s", "e", "t", "s">>

\* hashlib.md5(str(asset_path).encode()).hexdigest()[:8], for the asset
\* paths of this model
md5_hex8(path_str) ==
    CASE path_str = <<"/", "v", "/", "a", "t", "t", "a", "c", "h", "m", "e", "n", "t", "s", "/", "i", ".", "p", "n", "g">> -> <<"d", "f", "d", "8", "c", "2", "9", "6">>
      [] path_str = <<"/", "v", "/", "s", "/", "i", ".", "p", "n", "g">> -> <<"1", "1", "f", "9", "2", "0", "7", "b">>
      [] path_str = <<"/", "v", "/", "s", "/", "d", ".", "p", "d", "f">> -> <<"9", "e", "3", "8", "2", "8", "6", "0">>

\* the state copy_asset works on: self.asset_mapping, a function from
\* str(asset_path) to the destination; the files shutil.copy2 wrote, in
\* order, as <<source, destination>> pairs; and the calls of copy_asset, in
\* order, as <<source, path returned>> pairs
AssetState(asset_mapping, copies, calls) ==
    [asset_mapping |-> asset_mapping, copies |-> copies, calls |-> calls]

\* the destination of copy_asset relative to the output directory:
\* <assets_dir>/<stem>_<hash><suffix>
asset_dest(asset_path) ==
    AssetsDir \o <<"/">> \o PathStem(asset_path.name) \o <<"_">>
    \o md5_hex8(PathStr(asset_path)) \o PathSuffix(asset_path.name)

\* asset_mapping with asset_mapping[key] = dest
MapSet(asset_mapping, key, dest) ==
    [k \in DOMAIN asset_mapping \cup {key} |->
        IF k = key THEN dest ELSE asset_mapping[k]]

\* a call of copy_asset that copies key to dest
copied(key, dest, st) ==
    [path |-> dest,
     st |-> AssetState(MapSet(st.asset_mapping, key, dest),
                       Append(st.copies, <<key, dest>>),
                       Append(st.calls, <<key, dest>>))]

\* a call of copy_asset that finds key in self.asset_mapping
already_copied(key, st) ==
    [path |-> st.asset_mapping[key],
     st |-> AssetState(st.asset_mapping, st.copies,
                       Append(st.calls, <<key, st.asset_mapping[key]>>))]

\* ObsidianToDenoteConverter.copy_asset: the path returned and the state
\* after the call
copy_asset(asset_path, st) ==
    IF PathStr(asset_path) \notin DOMAIN st.asset_mapping
    THEN copied(PathStr(asset_path), asset_dest(asset_path), st)
    ELSE already_copied(PathStr(asset_path), st)

\* the converter after __init__ (lines 33-34), no walk begun
InitConverter ==
    /\ file_mapping = <<>>
    /\ asset_state = AssetState(<<>>, <<>>, <<>>)
    /\ md_files = None
    /\ idx = 0
    /\ converted_files = <<>>
    /\ out_files = <<>>
    /\ dirs_made = {}

(***************************************************************************)
(* process_assets.  Each of its three substitutions walks the text from    *)
(* left to right and threads the state of copy_asset through the matches.  *)
(***************************************************************************)
HandlingCopy == "copy"
HandlingLink == "link"
HandlingIgnore == "ignore"

\* the suffixes process_embed takes for assets (lines 282-283)
EmbedExts ==
    {<<".", "p", "n", "g">>, <<".", "j", "p", "g">>,
     <<".", "j", "p", "e", "g">>, <<".", "g", "i", "f">>,
     <<".", "b", "m", "p">>, <<".", "s", "v", "g">>, <<".", "p", "d", "f">>,
     <<".", "m", "p", "4">>, <<".", "m", "p", "3">>, <<".", "w", "a", "v">>,
     <<".", "m", "o", "v">>, <<".", "d", "o", "c", "x">>,
     <<".", "x", "l", "s", "x">>, <<".", "p", "p", "t", "x">>}

\* the suffixes attach_pattern accepts (line 274)
AttachExts ==
    {<<".", "p", "d", "f">>, <<".", "d", "o", "c">>,
     <<".", "d", "o", "c", "x">>, <<".", "x", "l", "s">>,
     <<".", "x", "l", "s", "x">>, <<".", "p", "p", "t">>,
     <<".", "p", "p", "t", "x">>, <<".", "z", "i", "p">>,
     <<".", "m", "p", "4">>, <<".", "m", "p", "3">>, <<".", "w", "a", "v">>}

FileLinkOpen == <<"[", "[", "f", "i", "l", "e", ":">>

\* what the callbacks of process_assets share: the note's directory, the
\* output kind, self.assets_handling and the file system
AssetEnv(source_dir, is_org, assets_handling, fs) ==
    [source_dir |-> source_dir, is_org |-> is_org,
     assets_handling |-> assets_handling, fs |-> fs]

\* a replacement text and the state after producing it
Replaced(out, st) == [out |-> out, st |-> st]

\* the replacement of an embed or image whose asset was copied (lines
\* 296-299, 322-325): label is the text between the brackets for markdown
copied_image(label, c, env) ==
    IF env.is_org
    THEN Replaced(FileLinkOpen \o c.path \o <<"]", "]">>, c.st)
    ELSE Replaced(<<"!", "[">> \o label \o <<"]", "(">> \o c.path \o <<")">>, c.st)

\* process_embed from line 289 on, asset_path being what find_asset returned
embed_found(asset_path, whole, env, st) ==
    IF asset_path = None THEN Replaced(whole, st)
    ELSE IF env.assets_handling = HandlingCopy
    THEN copied_image(PathStem(asset_path.name), copy_asset(asset_path, st), env)
    ELSE IF env.is_org
    THEN Replaced(FileLinkOpen \o PathStr(asset_path) \o <<"]", "]">>, st)
    ELSE Replaced(<<"!", "[">> \o PathStem(asset_path.name) \o <<"]", "(">>
                  \o PathStr(asset_path) \o <<")">>, st)

\* process_embed: whole is match.group(0), file_ref is match.group(1)
process_embed(file_ref, whole, env, st) ==
    IF ~\E ext \in EmbedExts : EndsWith(file_ref, ext) THEN Replaced(whole, st)
    ELSE embed_found(find_asset(file_ref, env.source_dir, env.fs), whole, env, st)

\* the replacement r of a match, after the text before it and before the
\* rest of the substitution
spliced(before, r, rest) == Replaced(before \o r.out \o rest.out, rest.st)

RECURSIVE SubAssetEmbeds(_, _, _, _)

\* the match of embed_pattern at offset k replaced by r, and the
\* substitution carried on behind it
embed_replaced(s, i, k, g, r, env) ==
    spliced(Slice(s, i, k), r, SubAssetEmbeds(s, k + g + 5, env, r.st))

\* re.sub(embed_pattern, process_embed, content), from offset i on
SubAssetEmbeds(s, i, env, st) ==
    LET hits == {k \in i..(Len(s) - 1) : s[k + 1] = "!" /\ WikiGroupLen(s, k + 1) > 0}
        k == Least(hits)
        g == WikiGroupLen(s, k + 1)
    IN IF hits = {} THEN Replaced(SliceFrom(s, i), st)
       ELSE embed_replaced(s, i, k, g,
                           process_embed(Slice(s, k + 3, k + 3 + g),
                                         Slice(s, k, k + g + 5), env, st),
                           env)

\* the number of characters other than ) of s from 0-based offset i on
RECURSIVE NonParenRun(_, _)
NonParenRun(s, i) ==
    IF i < Len(s) /\ s[i + 1] # ")" THEN 1 + NonParenRun(s, i + 1) ELSE 0

\* the match of md_img_pattern r'!\[([^\]]*)\]\(([^)]+)\)' at offset i:
\* the lengths of its two groups, ok FALSE when there is no match there
md_img_match(s, i) ==
    LET a == NonCloseRun(s, i + 2)
        p == NonParenRun(s, i + 4 + a)
    IN [ok |-> /\ MatchAt(s, <<"!", "[">>, i)
               /\ MatchAt(s, <<"]", "(">>, i + 2 + a)
               /\ p >= 1
               /\ MatchAt(s, <<")">>, i + 4 + a + p),
        alt |-> a, path |-> p]

\* process_md_image from line 316 on
image_found(asset_path, alt_text, whole, env, st) ==
    IF asset_path = None THEN Replaced(whole, st)
    ELSE IF env.assets_handling = HandlingCopy
    THEN copied_image(alt_text, copy_asset(asset_path, st), env)
    ELSE IF env.is_org
    THEN Replaced(FileLinkOpen \o PathStr(asset_path) \o <<"]", "]">>, st)
    ELSE Replaced(whole, st)

\* process_md_image
process_md_image(alt_text, img_path, whole, env, st) ==
    IF StartsWith(img_path, <<"h", "t", "t", "p", ":", "/", "/">>) \/ StartsWith(img_path, <<"h", "t", "t", "p", "s", ":", "/", "/">>)
    THEN Replaced(whole, st)
    ELSE image_found(find_asset(img_path, env.source_dir, env.fs),
                     alt_text, whole, env, st)

RECURSIVE SubMdImages(_, _, _, _)

\* the match of md_img_pattern at offset k, n long, replaced by r, and the
\* substitution carried on behind it
image_replaced(s, i, k, n, r, env) ==
    spliced(Slice(s, i, k), r, SubMdImages(s, k + n, env, r.st))

\* re.sub(md_img_pattern, process_md_image, content), from offset i on
SubMdImages(s, i, env, st) ==
    LET hits == {k \in i..(Len(s) - 1) : md_img_match(s, k).ok}
        k == Least(hits)
        m == md_img_match(s, k)
    IN IF hits = {} THEN Replaced(SliceFrom(s, i), st)
       ELSE image_replaced(s, i, k, m.alt + m.path + 5,
                           process_md_image(
                               Slice(s, k + 2, k + 2 + m.alt),
                               Slice(s, k + 4 + m.alt, k + 4 + m.alt + m.path),
                               Slice(s, k, k + m.alt + m.path + 5), env, st),
                           env)

\* the number of characters other than ] and | of s from 0-based offset i on
RECURSIVE RefRun(_, _)
RefRun(s, i) ==
    IF i < Len(s) /\ s[i + 1] \notin {"]", "|"} THEN 1 + RefRun(s, i + 1) ELSE 0

\* the length of group 1 of the match of attach_pattern at offset i, 0 when
\* there is no match there: [[ not after a !, a reference ending in one of
\* the suffixes, an optional |description, ]]
attach_group_len(s, i) ==
    LET r == RefRun(s, i + 2)
        ref == Slice(s, i + 2, i + 2 + r)
        j == i + 2 + r
        a == NonCloseRun(s, j + 1)
    IN IF ~(/\ MatchAt(s, <<"[", "[">>, i)
            /\ (i = 0 \/ s[i] # "!")
            /\ \E ext \in AttachExts : EndsWith(ref, ext) /\ Len(ref) > Len(ext))
       THEN 0
       ELSE IF MatchAt(s, <<"|">>, j) /\ a >= 1 /\ MatchAt(s, <<"]", "]">>, j + 1 + a)
       THEN r + 1 + a
       ELSE IF MatchAt(s, <<"]", "]">>, j) THEN r
       ELSE 0

\* the replacement of an attachment whose asset was copied (lines 348-351)
copied_attachment(desc, c, env) ==
    IF env.is_org
    THEN Replaced(FileLinkOpen \o c.path \o <<"]", "[">> \o desc \o <<"]", "]">>, c.st)
    ELSE Replaced(<<"[">> \o desc \o <<"]", "(">> \o c.path \o <<")">>, c.st)

\* process_attachment from line 342 on
attachment_found(asset_path, desc, whole, env, st) ==
    IF asset_path = None THEN Replaced(whole, st)
    ELSE IF env.assets_handling = HandlingCopy
    THEN copied_attachment(desc, copy_asset(asset_path, st), env)
    ELSE IF env.is_org
    THEN Replaced(FileLinkOpen \o PathStr(asset_path) \o <<"]", "[">> \o desc \o <<"]", "]">>, st)
    ELSE Replaced(<<"[">> \o desc \o <<"]", "(">> \o PathStr(asset_path) \o <<")">>, st)

\* process_attachment once file_info is split into file_ref and desc
attachment_split(file_ref, desc, whole, env, st) ==
    attachment_found(find_asset(file_ref, env.source_dir, env.fs), desc, whole, env, st)

\* process_attachment: whole is match.group(0), file_info is match.group(1)
process_attachment(file_info, whole, env, st) ==
    IF Find(file_info, <<"|">>, 0) # -1
    THEN attachment_split(Slice(file_info, 0, Find(file_info, <<"|">>, 0)),
                          SliceFrom(file_info, Find(file_info, <<"|">>, 0) + 1),
                          whole, env, st)
    ELSE attachment_split(file_info, PathStem(JoinRef(<<>>, file_info).name),
                          whole, env, st)

RECURSIVE SubAttachments(_, _, _, _)

\* the match of attach_pattern at offset k replaced by r, and the
\* substitution carried on behind it
attachment_replaced(s, i, k, g, r, env) ==
    spliced(Slice(s, i, k), r, SubAttachments(s, k + g + 4, env, r.st))

\* re.sub(attach_pattern, process_attachment, content), from offset i on
SubAttachments(s, i, env, st) ==
    LET hits == {k \in i..(Len(s) - 1) : attach_group_len(s, k) > 0}
        k == Least(hits)
        g == attach_group_len(s, k)
    IN IF hits = {} THEN Replaced(SliceFrom(s, i), st)
       ELSE attachment_replaced(s, i, k, g,
                                process_attachment(Slice(s, k + 2, k + 2 + g),
                                                   Slice(s, k, k + g + 4), env, st),
                                env)

\* the three substitutions of lines 359-361, each on what the one before
\* returned
embed_pass(p, env) == SubAssetEmbeds(p.out, 0, env, p.st)
image_pass(p, env) == SubMdImages(p.out, 0, env, p.st)
attachment_pass(p, env) == SubAttachments(p.out, 0, env, p.st)

\* process_assets without the early return of lines 260-261: the three
\* substitutions run whatever self.assets_handling is
process_assets_scan(content, env, st) ==
    attachment_pass(image_pass(embed_pass(Replaced(content, st), env), env), env)

\* ObsidianToDenoteConverter.process_assets: the content returned and the
\* state of copy_asset after it
process_assets(content, env, st) ==
    IF env.assets_handling = HandlingIgnore THEN Replaced(content, st)
    ELSE attachment_pass(image_pass(embed_pass(Replaced(content, st), env), env), env)


\* the directories that process_assets makes (lines 264-266): the assets
\* directory of the output directory, in copy mode
assets_dir_made(assets_handling, output_dir) ==
    IF assets_handling = HandlingCopy THEN {Append(output_dir, AssetsDir)} ELSE {}

(***************************************************************************)
(* convert_to_org                                                          *)
(***************************************************************************)
\* repr of a list of str, as str(value) writes it
RECURSIVE ReprItems(_)
ReprItems(l) ==
    IF l = <<>> THEN <<>>
    ELSE (IF Head(l).t = "str" THEN <<"'">> \o Head(l).s \o <<"'">> ELSE Str(Head(l)))
         \o (IF Len(l) > 1 THEN <<",", " ">> ELSE <<>>) \o ReprItems(Tail(l))

\* f"{value}" for None, str and list
Format(v) == IF v.t = "list" THEN <<"[">> \o ReprItems(v.l) \o <<"]">> ELSE Str(v)

\* c.upper(), for the letters of this model
Upper(c) ==
    IF c \in LowerChars
    THEN CHOOSE u \in UpperChars : Lower(u) = c
    ELSE c

UpperAll(s) == [i \in 1..Len(s) |-> Upper(s[i])]

RECURSIVE FileTags(_)
\* [':' + tag + ':' for tag in tags]
FileTags(tags) ==
    IF tags = <<>> THEN <<>>
    ELSE <<<<":">> \o Head(tags) \o <<":">>>> \o FileTags(Tail(tags))

RECURSIVE PropertyLines(_, _)
\* the loop over metadata.items() of lines 380-382
PropertyLines(metadata, keys) ==
    IF keys = <<>> THEN <<>>
    ELSE (IF Head(keys) \notin {KeyTitle, KeyTags, KeyAliases}
          THEN <<<<":">> \o UpperAll(Head(keys)) \o <<":", " ">> \o Format(metadata.d[Head(keys)])>>
          ELSE <<>>)
         \o PropertyLines(metadata, Tail(keys))

\* the header lines of convert_to_org (lines 371-385); today is
\* datetime.now().strftime('%Y-%m-%d')
org_header(metadata, title, tags, today) ==
    <<<<"#", "+", "t", "i", "t", "l", "e", ":", " ">> \o title, <<"#", "+", "d", "a", "t", "e", ":", " ">> \o today>>
    \o (IF tags # <<>>
        THEN <<<<"#", "+", "f", "i", "l", "e", "t", "a", "g", "s", ":", " ">> \o Join(<<" ">>, FileTags(tags))>>
        ELSE <<>>)
    \o (IF Truthy(metadata)
        THEN <<<<"\n", ":", "P", "R", "O", "P", "E", "R", "T", "I", "E", "S", ":">>>> \o PropertyLines(metadata, metadata.keys)
             \o <<<<":", "E", "N", "D", ":">>>>
        ELSE <<>>)
    \o << <<>> >>

RECURSIVE SubLazy(_, _, _, _)
\* re.sub(D + r'(.+?)' + D, W + r'\1' + W, line), from offset i on: the
\* group is the shortest text of one character or more before the next D
SubLazy(s, i, D, W) ==
    LET hits == {k \in i..(Len(s) - 1) :
                    /\ MatchAt(s, D, k)
                    /\ \E c \in 1..Len(s) : MatchAt(s, D, k + Len(D) + c)}
    IN IF hits = {} THEN SliceFrom(s, i)
       ELSE LET k == CHOOSE k \in hits : \A j \in hits : k <= j
                closers == {c \in 1..Len(s) : MatchAt(s, D, k + Len(D) + c)}
                c == CHOOSE c \in closers : \A j \in closers : c <= j
            IN Slice(s, i, k) \o W \o Slice(s, k + Len(D), k + Len(D) + c) \o W
               \o SubLazy(s, k + 2 * Len(D) + c, D, W)

\* the backtick, which a string of this language cannot hold: the acute
\* accent stands for it
Backtick == "´"

\* the number of characters other than a backtick of s from offset i on
RECURSIVE NonTickRun(_, _)
NonTickRun(s, i) ==
    IF i < Len(s) /\ s[i + 1] # Backtick THEN 1 + NonTickRun(s, i + 1) ELSE 0

RECURSIVE SubInlineCode(_, _)
\* the inline code substitution of line 419: a backtick, characters other
\* than backticks, a backtick; the backticks become ~; from offset i on
SubInlineCode(s, i) ==
    LET hits == {k \in i..(Len(s) - 1) :
                    /\ s[k + 1] = Backtick
                    /\ NonTickRun(s, k + 1) >= 1
                    /\ MatchAt(s, <<Backtick>>, k + 1 + NonTickRun(s, k + 1))}
    IN IF hits = {} THEN SliceFrom(s, i)
       ELSE LET k == CHOOSE k \in hits : \A j \in hits : k <= j
                n == NonTickRun(s, k + 1)
            IN Slice(s, i, k) \o <<"~">> \o Slice(s, k + 1, k + 1 + n) \o <<"~">>
               \o SubInlineCode(s, k + n + 2)

\* the emphasis substitutions of lines 414-419, in their order
convert_emphasis(line) ==
    LET bold == SubLazy(line, 0, <<"*", "*">>, <<"*">>)
        bold_alt == SubLazy(bold, 0, <<"_", "_">>, <<"*">>)
        italic == SubLazy(bold_alt, 0, <<"*">>, <<"/">>)
        italic_alt == SubLazy(italic, 0, <<"_">>, <<"/">>)
        strike == SubLazy(italic_alt, 0, <<"~", "~">>, <<"+">>)
    IN SubInlineCode(strike, 0)

\* the number of whitespace characters at the start of s
LeadingSpace(s) == Len(s) - Len(LStrip(s, SpaceChars))

\* the number of digits of s from 0-based offset i on
RECURSIVE DigitRun(_, _)
DigitRun(s, i) ==
    IF i < Len(s) /\ s[i + 1] \in DigitChars THEN 1 + DigitRun(s, i + 1) ELSE 0

\* the unordered list substitution of line 422: leading whitespace, one of
\* - * +, a whitespace character; marker and whitespace become `- '
convert_unordered(line) ==
    LET w == LeadingSpace(line)
    IN IF w + 2 <= Len(line) /\ line[w + 1] \in {"-", "*", "+"}
          /\ line[w + 2] \in SpaceChars
       THEN Slice(line, 0, w) \o <<"-", " ">> \o SliceFrom(line, w + 2)
       ELSE line

\* the ordered list substitution of line 423: leading whitespace, digits, a
\* dot, a whitespace character, which becomes a space
convert_ordered(line) ==
    LET w == LeadingSpace(line)
        d == DigitRun(line, w)
    IN IF d >= 1 /\ w + d + 2 <= Len(line) /\ line[w + d + 1] = "."
          /\ line[w + d + 2] \in SpaceChars
       THEN Slice(line, 0, w + d) \o <<".", " ">> \o SliceFrom(line, w + d + 2)
       ELSE line

\* the checkbox substitution left out: the line stays as it is
convert_checkbox_skipped(line, box, org_box) == line

\* the checkbox substitutions of lines 426-427: leading whitespace, `- [', the
\* box character, `]', a whitespace character, which becomes a space; the
\* box character becomes org_box
convert_checkbox(line, box, org_box) ==
    LET w == LeadingSpace(line)
    IN IF MatchAt(line, <<"-", " ", "[">> \o box \o <<"]">>, w) /\ w + 6 <= Len(line)
          /\ line[w + 6] \in SpaceChars
       THEN Slice(line, 0, w) \o <<"-", " ", "[">> \o org_box \o <<"]", " ">> \o SliceFrom(line, w + 6)
       ELSE line

\* a line outside code blocks that is no heading (lines 414-427)
convert_line(line) ==
    convert_checkbox(
        convert_checkbox(convert_ordered(convert_unordered(convert_emphasis(line))),
                         <<" ">>, <<" ">>),
        <<"x">>, <<"X">>)

\* the number of # at the start of s
RECURSIVE HashRun(_)
HashRun(s) == IF s # <<>> /\ Head(s) = "#" THEN 1 + HashRun(Tail(s)) ELSE 0

\* a heading line written with one star whatever its depth
convert_header_flat(line) ==
    <<"*", " ">> \o Strip(SliceFrom(line, HashRun(line)), SpaceChars)

\* a heading line (lines 407-411)
convert_header(line) ==
    LET level == HashRun(line)
    IN [i \in 1..level |-> "*"] \o <<" ">> \o Strip(SliceFrom(line, level), SpaceChars)

CodeFence == <<Backtick, Backtick, Backtick>>

RECURSIVE org_body(_, _)
\* the loop over the lines of convert_to_org (lines 390-429)
org_body(lines, in_code_block) ==
    IF lines = <<>> THEN <<>>
    ELSE LET line == Head(lines)
         IN IF StartsWith(line, CodeFence)
            THEN <<IF ~in_code_block
                   THEN <<"#", "+", "B", "E", "G", "I", "N", "_", "S", "R", "C", " ">> \o Strip(SliceFrom(line, 3), SpaceChars)
                   ELSE <<"#", "+", "E", "N", "D", "_", "S", "R", "C">>>>
                 \o org_body(Tail(lines), ~in_code_block)
            ELSE IF in_code_block
            THEN <<line>> \o org_body(Tail(lines), TRUE)
            ELSE IF StartsWith(line, <<"#">>)
            THEN <<convert_header(line)>> \o org_body(Tail(lines), FALSE)
            ELSE <<convert_line(line)>> \o org_body(Tail(lines), FALSE)

\* ObsidianToDenoteConverter.convert_to_org
convert_to_org(content, metadata, title, tags, today, mapping) ==
    convert_links(
        Join(<<"\n">>, org_header(metadata, title, tags, today)
                     \o org_body(Split(content, "\n"), FALSE)),
        TRUE, FALSE, mapping)

(***************************************************************************)
(* convert_file and the loop body of convert_directory.  A configuration   *)
(* cfg holds the attributes of the converter set by __init__ and the       *)
(* arguments of convert_directory; fs.text and fs.mtime give the content   *)
(* and the modification time of each note.                                 *)
(***************************************************************************)
FormatOrg == "org"
FormatMd == "md"

\* created_time.strftime('%Y-%m-%d')
strftime_date(dt, pad_year) ==
    (IF pad_year THEN ZeroPad(IntStr(dt.year), 4) ELSE IntStr(dt.year))
    \o <<"-">> \o ZeroPad(IntStr(dt.month), 2) \o <<"-">> \o ZeroPad(IntStr(dt.day), 2)

\* self.file_mapping[input_path] = denote_filename: a new key goes last, a
\* known key keeps its place
record_mapping(mapping, input_path, denote_filename) ==
    IF \E k \in 1..Len(mapping) : mapping[k].old = input_path
    THEN [k \in 1..Len(mapping) |->
            IF mapping[k].old = input_path
            THEN [old |-> input_path, new |-> denote_filename]
            ELSE mapping[k]]
    ELSE Append(mapping, [old |-> input_path, new |-> denote_filename])

\* the header that convert_file puts before markdown output (lines 481-490)
md_header(title, tags, created_time, pad_year) ==
    Join(<<"\n">>, <<<<"-", "-", "-">>,
                   <<"t", "i", "t", "l", "e", ":", " ">> \o title,
                   <<"d", "a", "t", "e", ":", " ">> \o strftime_date(created_time, pad_year),
                   <<"t", "a", "g", "s", ":", " ">> \o Join(<<",", " ">>, tags),
                   <<"i", "d", "e", "n", "t", "i", "f", "i", "e", "r", ":", " ">> \o strftime(created_time, pad_year),
                   <<"-", "-", "-">>,
                   <<>> >>)

\* the directory convert_file writes to, taking the flat branch always
output_dir_flat(cfg, relative_dirs) == cfg.output_dir

\* the directory convert_file writes to (lines 492-500); relative_dirs is
\* relative_path.parent, and a relative_path is always given by the walk
output_dir_of(cfg, relative_dirs) ==
    IF cfg.preserve_structure THEN cfg.output_dir \o relative_dirs
    ELSE cfg.output_dir

\* the directories that mkdir(parents=True, exist_ok=True) makes sure of
\* for output_subdir: it and those above it down from the output root
subdirs_made(cfg, relative_dirs) ==
    IF cfg.preserve_structure
    THEN {cfg.output_dir \o SubSeq(relative_dirs, 1, n) : n \in 0..Len(relative_dirs)}
    ELSE {}

\* what convert_file holds after line 461: the metadata, and the content
\* and copy_asset state that process_assets returned as pa
processed(metadata, pa) ==
    [metadata |-> metadata, remaining_content |-> pa.out, st |-> pa.st]

\* lines 451-461 of convert_file, fm being what extract_yaml_frontmatter returned
process_extracted(fm, input_path, cfg, fs, st) ==
    processed(fm.metadata,
              process_assets(fm.remaining_content,
                             AssetEnv(input_path.dirs, cfg.output_format = FormatOrg,
                                      cfg.assets_handling, fs),
                             st))

\* the first steps of convert_file (lines 445-461): the file is read, its
\* frontmatter cut off, its assets processed
read_and_process(input_path, cfg, fs, st) ==
    process_extracted(extract_yaml_frontmatter(fs.text[input_path]),
                      input_path, cfg, fs, st)

\* the tags that generate_denote_filename makes a set of, rp being what
\* read_and_process returned
tag_set_of(rp) == denote_tag_set(rp.metadata, rp.remaining_content)

\* the tags that generate_denote_filename makes a set of, for input_path
file_tag_set(input_path, cfg, fs, st) ==
    tag_set_of(read_and_process(input_path, cfg, fs, st))

\* lines 471-490 of convert_file: the content converted, recorded being
\* self.file_mapping after line 469
converted_content(rp, gen, recorded, cfg) ==
    IF cfg.output_format = FormatOrg
    THEN convert_to_org(rp.remaining_content, rp.metadata, gen.title,
                        gen.tags, cfg.today, recorded)
    ELSE md_header(gen.title, gen.tags, gen.created_time, cfg.pad_year)
         \o convert_links(rp.remaining_content, FALSE, cfg.preserve_links, recorded)

\* convert_file from line 469 on, gen being what generate_denote_filename
\* returned
convert_named(rp, gen, recorded, relative_dirs, cfg) ==
    [denote_filename |-> gen.filename,
     output_path |-> PathOf(output_dir_of(cfg, relative_dirs), gen.filename),
     written |-> converted_content(rp, gen, recorded, cfg),
     title |-> gen.title,
     tags |-> gen.tags,
     dirs_made |-> subdirs_made(cfg, relative_dirs)
                   \cup assets_dir_made(cfg.assets_handling, cfg.output_dir),
     file_mapping |-> recorded,
     st |-> rp.st]

\* convert_file from line 464 on
name_and_convert(rp, gen, input_path, relative_dirs, cfg, mapping) ==
    convert_named(rp, gen, record_mapping(mapping, input_path, gen.filename),
                  relative_dirs, cfg)

\* convert_file from line 464 on, rp being what read_and_process returned
convert_processed(rp, input_path, relative_dirs, cfg, fs, mapping, tags) ==
    name_and_convert(rp,
                     generate_denote_filename(PathStem(input_path.name),
                                              fs.mtime[input_path], rp.metadata,
                                              rp.remaining_content,
                                              cfg.output_format, tags, cfg.pad_year),
                     input_path, relative_dirs, cfg, mapping)

\* ObsidianToDenoteConverter.convert_file: what it returns, what it writes
\* and the mappings after it.  tags is the order in which list(set(...))
\* enumerated the tags.
convert_file(input_path, relative_dirs, cfg, fs, mapping, st, tags) ==
    convert_processed(read_and_process(input_path, cfg, fs, st),
                      input_path, relative_dirs, cfg, fs, mapping, tags)

\* [self.slugify(part) for part in relative_path.parent.parts]
folder_tags(relative_dirs) ==
    [k \in 1..Len(relative_dirs) |-> slugify(PyStr(relative_dirs[k]))]

\* whether the folder tag block of convert_directory (lines 534-549) runs
adds_folder_tags(cfg, relative_dirs) == cfg.add_folder_tags /\ relative_dirs # <<>>

AttributeError == [t |-> "AttributeError"]

\* lines 541-549: metadata['tags'] after the folder tags were added to it;
\* AttributeError when extend raised it, which is when the tags key holds
\* neither a str nor a list
extend_tags(metadata, folder) ==
    IF ~HasKey(metadata, KeyTags) THEN PyList(folder)
    ELSE IF metadata.d[KeyTags].t = "str"
    THEN PyList(<<metadata.d[KeyTags]>> \o folder)
    ELSE IF metadata.d[KeyTags].t = "list"
    THEN PyList(metadata.d[KeyTags].l \o folder)
    ELSE AttributeError

\* lines 537-539: a metadata of None becomes {}
dict_or_empty(metadata) == IF metadata = None THEN EmptyDict ELSE metadata

\* metadata['tags'] of the local metadata of the folder tag block after
\* its last line, or AttributeError
folder_tagged(content, relative_dirs) ==
    extend_tags(dict_or_empty(extract_yaml_frontmatter(content).metadata),
                [k \in 1..Len(relative_dirs) |-> PyStr(folder_tags(relative_dirs)[k])])

\* whether the body of the loop of convert_directory raises for md_file
\* before it reaches convert_file
raises_before_convert(md_file, relative_dirs, cfg, fs) ==
    /\ adds_folder_tags(cfg, relative_dirs)
    /\ folder_tagged(fs.text[md_file], relative_dirs) = AttributeError

(***************************************************************************)
(* Bounded inputs.                                                         *)
(***************************************************************************)
RECURSIVE SeqsUpTo(_, _)
\* the sequences over S of length at most n
SeqsUpTo(S, n) ==
    IF n = 0 THEN {<<>>}
    ELSE LET shorter == SeqsUpTo(S, n - 1)
         IN shorter \cup {Append(s, c) : s \in shorter, c \in S}

MaxSlugLen == 4
SlugAlphabet == {"a", "B", "1", "_", "-", " ", "!", EAcute, SharpS}
SlugInputs == {None} \cup {PyStr(s) : s \in SeqsUpTo(SlugAlphabet, MaxSlugLen)}

MaxFmLines == 5
EntryLine == <<"t", ":", " ", "a">>
UnclosedLine == <<"[">>
HeadingLine == <<"#", " ", "a">>
FmLines == {DashLine, EntryLine, UnclosedLine, HeadingLine, <<>>}
\* texts of one to MaxFmLines lines; a last empty line is a final newline
FmContents ==
    {Join(<<"\n">>, ls) : ls \in SeqsUpTo(FmLines, MaxFmLines) \ {<<>>}}

MaxFnLines == 2
Absent == [t |-> "absent"]
StemNote == <<"n", "o", "t", "e">>
TestNote == <<"T", "e", "s", "t", " ", "N", "o", "t", "e">>
Tag1 == <<"t", "a", "g", "1">>
Tag2 == <<"t", "a", "g", "2">>
FnStems == {StemNote, <<"x">>}
FnTitles == {Absent, None, PyStr(<<>>), PyStr(TestNote), PyStr(StemNote)}
FnAliases == {Absent, PyList(<<>>), PyList(<<PyStr(<<"a", "l">>)>>), PyStr(<<"a", "l">>)}
FnTags == {Absent, PyList(<<>>), PyList(<<PyStr(Tag1), PyStr(Tag2)>>), PyStr(Tag1),
           PyList(<<PyStr(<<"A">>), PyStr(<<"a">>), None>>)}
FnCreated == {Absent, PyStr(<<"2", "0", "2", "4", "-", "0", "1", "-", "1", "5">>),
              PyStr(<<"0", "9", "9", "9", "-", "0", "1", "-", "0", "2">>),
              PyStr(<<"s", "o", "o", "n">>)}
FnLines == {<<"#", " ", "H">>, <<"#", "t", "a", "g", "1">>, <<"#">>, <<"f", "o", "o">>}
FnContents == {Join(<<"\n">>, ls) : ls \in SeqsUpTo(FnLines, MaxFnLines)}
FnMtime == DateTime(2025, 3, 9, 14, 5, 7)

\* the dict with the keys that are given a value
MakeMeta(title, aliases, tags, created) ==
    LET given == (KeyTitle :> title) @@ (KeyAliases :> aliases)
                 @@ (KeyTags :> tags) @@ (KeyCreated :> created)
    IN PyDict([k \in {k \in DOMAIN given : given[k] # Absent} |-> given[k]],
              SelectSeq(<<KeyTitle, KeyAliases, KeyTags, KeyCreated>>,
                        LAMBDA k : given[k] # Absent))

FnMetadata ==
    {None} \cup {MakeMeta(ti, al, ta, cr) :
                    ti \in FnTitles, al \in FnAliases, ta \in FnTags, cr \in FnCreated}

MaxLinkChunks == 3
\* the pieces a text is made of: plain text, a wiki-link [[target]] or
\* [[target|display]], an embed ![[ref]]
TextChunk(text) == [k |-> "text", s |-> text]
LinkChunk(target) == [k |-> "link", target |-> target]
LinkAsChunk(target, display) == [k |-> "linkas", target |-> target, display |-> display]
EmbedChunk(ref) == [k |-> "embed", ref |-> ref]

\* the markdown of a chunk
Render(c) ==
    CASE c.k = "text" -> c.s
      [] c.k = "link" -> <<"[", "[">> \o c.target \o <<"]", "]">>
      [] c.k = "linkas" -> <<"[", "[">> \o c.target \o <<"|">> \o c.display \o <<"]", "]">>
      [] c.k = "embed" -> <<"!", "[", "[">> \o c.ref \o <<"]", "]">>

RECURSIVE RenderAll(_)
RenderAll(chunks) ==
    IF chunks = <<>> THEN <<>> ELSE Render(Head(chunks)) \o RenderAll(Tail(chunks))

LinkChunks ==
    {TextChunk(<<"x", " ">>), LinkChunk(<<"a">>), LinkChunk(<<"m", "y", "-", "n">>),
     LinkAsChunk(<<"b", " ", "c">>, <<"d">>), LinkAsChunk(<<"a">>, <<"d">>),
     EmbedChunk(<<"a">>)}
NameA == <<"a", ".", "m", "d">>
NameBC == <<"b", " ", "c", ".", "m", "d">>
\* entries of a file mapping: a.md, sub/a.md (the same stem) and `b c.md`
LinkEntries ==
    {[old |-> PathOf(<<>>, NameA), new |-> <<"1", "-", "-", "a", ".", "o", "r", "g">>],
     [old |-> PathOf(<<<<"s">>>>, NameA), new |-> <<"2", "-", "-", "a", ".", "o", "r", "g">>],
     [old |-> PathOf(<<>>, NameBC), new |-> <<"3", "-", "-", "b", "-", "c", ".", "o", "r", "g">>]}
\* file mappings: up to two entries with distinct paths, in insertion order
LinkMappings ==
    {m \in SeqsUpTo(LinkEntries, 2) : Len(m) = 2 => m[1] # m[2]}

(***************************************************************************)
(* Harness: slugify                                                        *)
(***************************************************************************)
InitSlugify ==
    /\ fn = "slugify"
    /\ arg \in {[text |-> x] : x \in SlugInputs}
    /\ ret = NoRet
    /\ InitConverter

CallSlugify ==
    /\ fn = "slugify"
    /\ ret = NoRet
    /\ ret' = PyStr(slugify(arg.text))
    /\ UNCHANGED <<fn, arg>>
    /\ UNCHANGED walk_vars

SpecSlugify == InitSlugify /\ [][CallSlugify]_vars

SlugCharset == LowerChars \cup DigitChars \cup {"-"}

\* C1: slugify returns, for every input (None and '' included), a non-empty
\* lowercase ASCII string with no character outside [a-z0-9-], and returns
\* exactly 'untitled' for None and for ''.
C1_SlugifyCharset ==
    (fn = "slugify" /\ ret # NoRet) =>
        /\ ret.t = "str"
        /\ ret.s # <<>>
        /\ \A i \in 1..Len(ret.s) : ret.s[i] \in SlugCharset
        /\ (Falsy(arg.text) => ret.s = Untitled)

(***************************************************************************)
(* Harness: extract_yaml_frontmatter                                       *)
(***************************************************************************)
InitFrontmatter ==
    /\ fn = "extract_yaml_frontmatter"
    /\ arg \in {[content |-> c] : c \in FmContents}
    /\ ret = NoRet
    /\ InitConverter

CallFrontmatter ==
    /\ fn = "extract_yaml_frontmatter"
    /\ ret = NoRet
    /\ ret' = extract_yaml_frontmatter(arg.content)
    /\ UNCHANGED <<fn, arg>>
    /\ UNCHANGED walk_vars

SpecFrontmatter == InitFrontmatter /\ [][CallFrontmatter]_vars

\* the lines of the text under call
FmArgLines == Split(arg.content, "\n")

\* the text's first line is --- and a later line is exactly ---
FmDelimited ==
    /\ Len(FmArgLines) >= 2
    /\ FmArgLines[1] = DashLine
    /\ \E k \in 2..Len(FmArgLines) : FmArgLines[k] = DashLine

\* the index of the closing line: the first --- line after the first line
FmCloseLine ==
    CHOOSE k \in 2..Len(FmArgLines) :
        /\ FmArgLines[k] = DashLine
        /\ \A j \in 2..(k - 1) : FmArgLines[j] # DashLine

\* the block between the two delimiter lines, and the text after the
\* closing line
FmBlock == Join(<<"\n">>, SubSeq(FmArgLines, 2, FmCloseLine - 1))
FmAfter == Join(<<"\n">>, SubSeq(FmArgLines, FmCloseLine + 1, Len(FmArgLines)))

\* C4: for a text whose first line is --- and which has a later --- line
\* (empty block and closing line at the end of the text included), the
\* metadata is the parsed block between the delimiter lines and the body is
\* exactly the text after the closing line.
C4_FrontmatterSplit ==
    (fn = "extract_yaml_frontmatter" /\ ret # NoRet /\ FmDelimited
        /\ safe_load(FmBlock) # YAMLError) =>
        /\ ret.metadata = safe_load(FmBlock)
        /\ ret.remaining_content = FmAfter

\* C5: extract_yaml_frontmatter always returns; a text that does not begin
\* with a --- line, and a text whose block fails to parse, give the empty
\* mapping and the original text.
C5_FrontmatterFallback ==
    (fn = "extract_yaml_frontmatter" /\ ret # NoRet) =>
        /\ DOMAIN ret = {"metadata", "remaining_content"}
        /\ (FmArgLines[1] # DashLine \/ Len(FmArgLines) < 2
            \/ (FmDelimited /\ safe_load(FmBlock) = YAMLError)) =>
              /\ ret.metadata = EmptyDict
              /\ ret.remaining_content = arg.content

\* a text with both delimiter lines whose block failed to parse has returned
C5_Witness ==
    /\ fn = "extract_yaml_frontmatter"
    /\ ret # NoRet
    /\ FmDelimited
    /\ FmCloseLine > 2
    /\ safe_load(FmBlock) = YAMLError
    /\ ret.remaining_content = arg.content

(***************************************************************************)
(* Harness: generate_denote_filename                                       *)
(***************************************************************************)
InitFilename ==
    /\ fn = "generate_denote_filename"
    /\ arg \in [stem : FnStems, mtime : {FnMtime}, metadata : FnMetadata,
                content : FnContents, output_format : {"org", "md"}]
    /\ ret = NoRet
    /\ InitConverter

CallFilename ==
    /\ fn = "generate_denote_filename"
    /\ ret = NoRet
    /\ \E tags \in Orderings(denote_tag_set(arg.metadata, arg.content)),
          pad_year \in BOOLEAN :
          ret' = generate_denote_filename(arg.stem, arg.mtime, arg.metadata,
                     arg.content, arg.output_format, tags, pad_year)
    /\ UNCHANGED <<fn, arg>>
    /\ UNCHANGED walk_vars

SpecFilename == InitFilename /\ [][CallFilename]_vars

FnReturned == fn = "generate_denote_filename" /\ ret # NoRet

FnExt == IF arg.output_format = "org" THEN ExtOrg ELSE ExtMd

\* YYYYMMDDTHHMMSS
IsTimestamp(ts) ==
    /\ Len(ts) = 15
    /\ ts[9] = "T"
    /\ \A i \in (1..15) \ {9} : ts[i] \in DigitChars

\* C2: the filename is <timestamp>--<slug><tag segment><ext>, the timestamp
\* 15 characters YYYYMMDDTHHMMSS with T as the 9th, the slug the non-empty
\* slugified title, ext .org or .md by the output format; for metadata
\* {title: Test Note, tags: [tag1, tag2]} it is
\* <timestamp>--test-note__tag1_tag2<ext>.
C2_FilenameFormat ==
    FnReturned =>
        LET f == ret.filename
            slug == slugify(PyStr(ret.title))
            rest == SliceFrom(f, 17 + Len(slug))
        IN /\ IsTimestamp(Slice(f, 0, 15))
           /\ Slice(f, 15, 17) = <<"-", "-">>
           /\ slug # <<>>
           /\ Slice(f, 17, 17 + Len(slug)) = slug
           /\ EndsWith(rest, FnExt)
           /\ (rest = FnExt \/ StartsWith(rest, <<"_", "_">>))
           /\ (arg.metadata = MakeMeta(PyStr(TestNote), Absent,
                                  PyList(<<PyStr(Tag1), PyStr(Tag2)>>), Absent)
               /\ arg.content = <<>>) =>
                 SliceFrom(f, 15) =
                     <<"-", "-", "t", "e", "s", "t", "-", "n", "o", "t", "e",
                       "_", "_", "t", "a", "g", "1", "_", "t", "a", "g", "2">> \o FnExt

\* the text holds no inline tag: no # with a word character after it
NoInlineTags(content) ==
    \A i \in 1..Len(content) :
        content[i] = "#" => (i = Len(content) \/ content[i + 1] \notin WordChars)

\* the metadata gives no tag: there is no metadata, no tags key, or an
\* empty list of tags
NoMetaTags(metadata) ==
    \/ metadata = None
    \/ ~HasKey(metadata, KeyTags)
    \/ metadata.d[KeyTags] = PyList(<<>>)

\* the metadata with its string-valued tags made a list of that one string
TagsAsList(metadata) ==
    PyDict([k \in DOMAIN metadata.d |->
               IF k = KeyTags THEN PyList(<<metadata.d[k]>>) ELSE metadata.d[k]],
           metadata.keys)

\* the metadata has string-valued tags
StringTags(metadata) ==
    /\ metadata # None
    /\ HasKey(metadata, KeyTags)
    /\ metadata.d[KeyTags].t = "str"

\* C13: with no metadata tags (or an empty list) and no inline tags the tag
\* list returned is empty and the file name is the timestamp, --, the slug
\* and the extension, with no tag segment; string-valued tags give the tag
\* list and the file name that the list of that one string gives.
C13_TagSegment ==
    FnReturned =>
        /\ (NoMetaTags(arg.metadata) /\ NoInlineTags(arg.content)) =>
              /\ ret.tags = <<>>
              /\ \E pad_year \in BOOLEAN :
                    ret.filename = strftime(ret.created_time, pad_year) \o <<"-", "-">>
                                   \o slugify(PyStr(ret.title)) \o FnExt
        /\ StringTags(arg.metadata) =>
              /\ denote_tag_set(TagsAsList(arg.metadata), arg.content)
                    = items_of(ret.tags)
              /\ \E pad_year \in BOOLEAN :
                    ret = generate_denote_filename(arg.stem, arg.mtime,
                              TagsAsList(arg.metadata), arg.content,
                              arg.output_format, ret.tags, pad_year)
              /\ NoInlineTags(arg.content) =>
                    /\ ret.tags = <<arg.metadata.d[KeyTags].s>>
                    /\ EndsWith(ret.filename,
                                slugify(PyStr(ret.title)) \o <<"_", "_">>
                                \o slugify(arg.metadata.d[KeyTags]) \o FnExt)

\* a call without any tag returned a file name without tag segment, for a
\* metadata with an empty list of tags
C13_Witness ==
    /\ FnReturned
    /\ arg.metadata # None
    /\ HasKey(arg.metadata, KeyTags)
    /\ arg.metadata.d[KeyTags] = PyList(<<>>)
    /\ NoInlineTags(arg.content)
    /\ ret.tags = <<>>
    /\ Find(ret.filename, <<"_", "_">>, 0) = -1

\* C14: for a metadata whose title is null or empty, without aliases, and
\* an empty body, generate_denote_filename returns the title 'untitled' and
\* a file name that holds --untitled.
C14_UntitledFallback ==
    (/\ FnReturned
     /\ arg.metadata # None
     /\ HasKey(arg.metadata, KeyTitle)
     /\ arg.metadata.d[KeyTitle] \in {None, PyStr(<<>>)}
     /\ ~HasKey(arg.metadata, KeyAliases)
     /\ arg.content = <<>>) =>
        /\ ret.title = Untitled
        /\ Find(ret.filename, <<"-", "-">> \o Untitled, 0) # -1

\* the first line of the text that starts with `# `, less that prefix;
\* None when there is none
FirstHeadingLine(content) ==
    LET lines == Split(content, "\n")
        hs == {i \in 1..Len(lines) : StartsWith(lines[i], <<"#", " ">>)}
    IN IF hs = {} THEN None
       ELSE PyStr(SliceFrom(lines[CHOOSE i \in hs : \A j \in hs : i <= j], 2))

\* the title the order of the claim gives: metadata title, first alias,
\* first heading line, file stem, 'untitled'
C3_ExpectedTitle ==
    LET m == arg.metadata
        has(k) == m # None /\ HasKey(m, k) /\ Truthy(m.d[k])
    IN IF has(KeyTitle) THEN Str(m.d[KeyTitle])
       ELSE IF has(KeyAliases)
       THEN (IF m.d[KeyAliases].t = "list" THEN Str(m.d[KeyAliases].l[1])
             ELSE m.d[KeyAliases].s)
       ELSE IF FirstHeadingLine(arg.content) # None
       THEN FirstHeadingLine(arg.content).s
       ELSE IF arg.stem # <<>> THEN arg.stem
       ELSE Untitled

\* C3: the returned title is the first available of metadata title, first
\* alias, first `# ` heading line of the body, file stem, 'untitled'; with
\* a non-empty metadata title it is that title whatever the body and the
\* file name are.
C3_TitleOrder ==
    FnReturned => ret.title = C3_ExpectedTitle

(***************************************************************************)
(* Harness: convert_links                                                  *)
(***************************************************************************)
InitLinks ==
    /\ fn = "convert_links"
    /\ arg \in [chunks : SeqsUpTo(LinkChunks, MaxLinkChunks), is_org : BOOLEAN,
                preserve_links : BOOLEAN, file_mapping : LinkMappings]
    /\ ret = NoRet
    /\ InitConverter

CallLinks ==
    /\ fn = "convert_links"
    /\ ret = NoRet
    /\ ret' = PyStr(convert_links(RenderAll(arg.chunks), arg.is_org,
                                  arg.preserve_links, arg.file_mapping))
    /\ UNCHANGED <<fn, arg>>
    /\ UNCHANGED walk_vars

SpecLinks == InitLinks /\ [][CallLinks]_vars

\* the stems the claim allows for a target: the Denote stems recorded for
\* a note whose original stem is the target, the target itself without one
C6_Stems(target) ==
    LET es == {k \in 1..Len(arg.file_mapping) :
                  PathStem(arg.file_mapping[k].old.name) = target}
    IN IF es = {} THEN {target}
       ELSE {PathStem(arg.file_mapping[k].new) : k \in es}

\* the rewritings the claim allows for a chunk; an embed is not a
\* wiki-link, and is let stand as the call itself rewrites it
C6_Rewritten(c) ==
    LET display == IF c.k = "linkas" THEN c.display ELSE c.target
    IN CASE c.k = "text" -> {c.s}
         [] c.k = "embed" -> {convert_links(Render(c), arg.is_org,
                                            arg.preserve_links, arg.file_mapping)}
         [] OTHER ->
            IF arg.is_org
            THEN {<<"[", "[", "f", "i", "l", "e", ":">> \o st \o ExtOrg \o <<"]", "[">>
                  \o display \o <<"]", "]">> : st \in C6_Stems(c.target)}
            ELSE IF ~arg.preserve_links
            THEN {<<"[">> \o display \o <<"]", "(">> \o st \o ExtMd \o <<")">> :
                    st \in C6_Stems(c.target)}
            ELSE {Render(c)}

RECURSIVE C6_Outputs(_)
C6_Outputs(chunks) ==
    IF chunks = <<>> THEN {<<>>}
    ELSE {x \o y : x \in C6_Rewritten(Head(chunks)), y \in C6_Outputs(Tail(chunks))}

\* C6: convert_links rewrites every wiki-link of the text and nothing else:
\* for org [[target]] and [[target|display]] become
\* [[file:<stem>.org][target]] and [[file:<stem>.org][display]], for
\* markdown without link preservation [target](<stem>.md) and
\* [display](<stem>.md), <stem> the mapped Denote stem of a note whose stem
\* is the target and the target itself without one; markdown with link
\* preservation returns the text unchanged.
C6_LinksRewritten ==
    (fn = "convert_links" /\ ret # NoRet) =>
        /\ ret.s \in C6_Outputs(arg.chunks)
        /\ (~arg.is_org /\ arg.preserve_links) => ret.s = RenderAll(arg.chunks)

\* an org call has returned for a text with a mapped [[target|display]]
\* link and an unmapped [[target]] link
C6_Witness ==
    /\ fn = "convert_links"
    /\ ret # NoRet
    /\ arg.is_org
    /\ \E i, j \in 1..Len(arg.chunks) :
          /\ arg.chunks[i] = LinkAsChunk(<<"b", " ", "c">>, <<"d">>)
          /\ arg.chunks[j] = LinkChunk(<<"m", "y", "-", "n">>)
    /\ \E k \in 1..Len(arg.file_mapping) : arg.file_mapping[k].old.name = NameBC

(***************************************************************************)
(* The vault of the walk: at most MaxNotes of five notes under /v, three   *)
(* asset files, and the output directory /o.                               *)
(***************************************************************************)
MaxNotes == 2

InputDir == << <<"v">> >>
OutputDir == << <<"o">> >>
DirS == InputDir \o << <<"s">> >>
DirT == DirS \o << <<"t">> >>
DirAttachments == InputDir \o << <<"a", "t", "t", "a", "c", "h", "m", "e", "n", "t", "s">> >>

NoteA == PathOf(InputDir, <<"a", ".", "m", "d">>)
NoteB == PathOf(DirS, <<"b", ".", "m", "d">>)
NoteU == PathOf(InputDir, <<"u", "_", "v", "_", "w", ".", "m", "d">>)
NoteC == PathOf(DirT, <<"c", ".", "m", "d">>)
NoteN == PathOf(DirS, <<"n", ".", "m", "d">>)
AllNotes == {NoteA, NoteB, NoteU, NoteC, NoteN}

ImageTop == PathOf(DirAttachments, <<"i", ".", "p", "n", "g">>)
ImageS == PathOf(DirS, <<"i", ".", "p", "n", "g">>)
PdfS == PathOf(DirS, <<"d", ".", "p", "d", "f">>)
AllAssets == {ImageTop, ImageS, PdfS}

\* the text of each note
NoteText(note) ==
    CASE note = NoteA -> <<"[", "[", "b", "]", "]", " ", "!", "[", "[", "i", ".", "p", "n", "g", "]", "]", "\n", "[", "[", "d", ".", "p", "d", "f", "]", "]", " ", "[", "[", "u", "_", "v", "_", "w", "]", "]">>
      [] note = NoteB -> <<"-", "-", "-", "\n", "t", "a", "g", "s", ":", " ", "[", "x", "]", "\n", "-", "-", "-", "\n", "[", "[", "a", "]", "]", " ", "[", "[", "z", "z", "]", "]", " ", "#", "y", "\n", "!", "[", "p", "]", "(", "i", ".", "p", "n", "g", ")">>
      [] note = NoteU -> <<"[", "[", "u", "_", "v", "_", "w", "]", "]", " ", "[", "[", "a", "|", "A", "]", "]">>
      [] note = NoteC -> <<"-", "-", "-", "\n", "t", "a", "g", "s", ":", "\n", "-", "-", "-", "\n", "!", "[", "[", "i", ".", "p", "n", "g", "]", "]", " ", "[", "[", "b", "]", "]">>
      [] note = NoteN -> <<"-", "-", "-", "\n", "t", "i", "t", "l", "e", ":", " ", "a", "\n", "-", "-", "-", "\n", "n">>

\* the modification time of each note
NoteMtime(note) ==
    CASE note = NoteA -> DateTime(2024, 1, 2, 3, 4, 5)
      [] note = NoteB -> DateTime(2024, 1, 3, 0, 0, 0)
      [] note = NoteU -> DateTime(2023, 12, 31, 23, 59, 59)
      [] note = NoteC -> DateTime(2024, 2, 29, 12, 0, 0)
      [] note = NoteN -> DateTime(2024, 1, 2, 3, 4, 5)

\* a vault holding notes, with .obsidian in the directories of markers
FileSystem(notes, markers) ==
    [files |-> notes \cup AllAssets,
     markers |-> markers,
     scan |-> <<ImageTop, ImageS, PdfS>>,
     text |-> [n \in notes |-> NoteText(n)],
     mtime |-> [n \in notes |-> NoteMtime(n)]]

\* the vaults of the walk: the notes they hold and the directories with
\* .obsidian
WalkVaults ==
    [notes : {ns \in SUBSET AllNotes : Cardinality(ns) <= MaxNotes},
     markers : { {}, {InputDir} }]

Today == <<"2", "0", "2", "6", "-", "0", "1", "-", "0", "1">>

\* the configurations of the walk.  preserve_links is read for markdown
\* output only; the years of the notes have four digits, which every C
\* library writes the same way.
WalkConfigs ==
    {c \in [output_format : {FormatOrg, FormatMd}, preserve_links : BOOLEAN,
            assets_handling : {HandlingCopy, HandlingLink, HandlingIgnore},
            input_dir : {InputDir}, output_dir : {OutputDir},
            preserve_structure : BOOLEAN, add_folder_tags : BOOLEAN,
            today : {Today}, pad_year : {TRUE}] :
        c.output_format = FormatOrg => ~c.preserve_links}

(***************************************************************************)
(* convert_directory                                                       *)
(***************************************************************************)
\* md_file.relative_to(input_path).parent, as the names below input_dir
relative_parent(md_file, cfg) ==
    SubSeq(md_file.dirs, Len(cfg.input_dir) + 1, Len(md_file.dirs))

\* the file system of the walk
walk_fs == FileSystem(arg.vault.notes, arg.vault.markers)

\* a file written: the note it came from, where it went, what it holds,
\* the title and tags that generate_denote_filename returned for it, and
\* the calls of copy_asset made for it
Written(md_file, r) ==
    [src |-> md_file, path |-> r.output_path, content |-> r.written,
     title |-> r.title, tags |-> r.tags,
     assets |-> SubSeq(r.st.calls, Len(asset_state.calls) + 1, Len(r.st.calls))]

InitWalk ==
    /\ fn = "convert_directory"
    /\ arg \in [cfg : WalkConfigs, vault : WalkVaults]
    /\ ret = NoRet
    /\ InitConverter

\* lines 516-521: the output directory is made and the notes are listed, in
\* the order in which the file system yields them
GlobFiles ==
    /\ fn = "convert_directory"
    /\ md_files = None
    /\ \E order \in Orderings(arg.vault.notes) : md_files' = PyList(order)
    /\ dirs_made' = dirs_made \cup {arg.cfg.output_dir}
    /\ UNCHANGED <<fn, arg, ret, file_mapping, asset_state, idx,
                   converted_files, out_files>>

\* what a turn of the loop leaves behind when convert_file returned r
Converted(md_file, r) ==
    /\ file_mapping' = r.file_mapping
    /\ asset_state' = r.st
    /\ out_files' = Append(out_files, Written(md_file, r))
    /\ dirs_made' = dirs_made \cup r.dirs_made
    /\ converted_files' = Append(converted_files, <<md_file, r.output_path>>)

\* one turn of the loop (lines 528-560) in which nothing is raised
ConvertNextFile ==
    /\ fn = "convert_directory"
    /\ md_files # None
    /\ idx < Len(md_files.l)
    /\ LET md_file == md_files.l[idx + 1]
           relative_dirs == relative_parent(md_file, arg.cfg)
       IN /\ ~raises_before_convert(md_file, relative_dirs, arg.cfg, walk_fs)
          /\ \E tags \in Orderings(file_tag_set(md_file, arg.cfg, walk_fs, asset_state)) :
                Converted(md_file,
                          convert_file(md_file, relative_dirs, arg.cfg, walk_fs,
                                       file_mapping, asset_state, tags))
    /\ idx' = idx + 1
    /\ UNCHANGED <<fn, arg, ret, md_files>>

\* one turn of the loop in which the folder tag block raises and nothing
\* catches it: the walk ends there
ConvertNextRaises_uncaught ==
    /\ fn = "convert_directory"
    /\ md_files # None
    /\ idx < Len(md_files.l)
    /\ raises_before_convert(md_files.l[idx + 1],
                             relative_parent(md_files.l[idx + 1], arg.cfg),
                             arg.cfg, walk_fs)
    /\ idx' = Len(md_files.l)
    /\ UNCHANGED <<fn, arg, ret, md_files, file_mapping, asset_state,
                   converted_files, out_files, dirs_made>>

\* one turn of the loop in which the folder tag block raises: the except
\* clause (lines 562-565) reports it and the loop goes on
ConvertNextRaises ==
    /\ fn = "convert_directory"
    /\ md_files # None
    /\ idx < Len(md_files.l)
    /\ raises_before_convert(md_files.l[idx + 1],
                             relative_parent(md_files.l[idx + 1], arg.cfg),
                             arg.cfg, walk_fs)
    /\ idx' = idx + 1
    /\ UNCHANGED <<fn, arg, ret, md_files, file_mapping, asset_state,
                   converted_files, out_files, dirs_made>>

\* line 567
ReturnConverted ==
    /\ fn = "convert_directory"
    /\ md_files # None
    /\ idx = Len(md_files.l)
    /\ ret = NoRet
    /\ ret' = PyList(converted_files)
    /\ UNCHANGED <<fn, arg>>
    /\ UNCHANGED walk_vars

NextWalk == GlobFiles \/ ConvertNextFile \/ ConvertNextRaises \/ ReturnConverted

SpecWalk == InitWalk /\ [][NextWalk]_vars


(***************************************************************************)
(* Properties of the walk.                                                 *)
(***************************************************************************)
\* whether p occurs in s
Contains(s, p) == Find(s, p, 0) # -1

\* whether out_files[k] was written by the time the walk is done with it
\* for a note of stem: the index of that file, 0 when there is none
RecordedBy(stem, k) ==
    LET hits == {j \in 1..k : PathStem(out_files[j].src.name) = stem}
    IN IF hits = {} THEN 0 ELSE Least(hits)

\* the wiki-links to notes in the text of a note, as <<target, display>>:
\* the bracket pairs that are no embed and whose target has no suffix
NoteLinks(text) ==
    LET at == {i \in 0..(Len(text) - 1) :
                  /\ WikiGroupLen(text, i) > 0
                  /\ (i = 0 \/ text[i] # "!")}
        inner(i) == Slice(text, i + 2, i + 2 + WikiGroupLen(text, i))
        bar(i) == Find(inner(i), <<"|">>, 0)
        target(i) == IF bar(i) # -1 THEN Slice(inner(i), 0, bar(i)) ELSE inner(i)
        display(i) == IF bar(i) # -1 THEN SliceFrom(inner(i), bar(i) + 1) ELSE inner(i)
    IN {<<target(i), display(i)>> : i \in {j \in at : PathSuffix(target(j)) = <<>>}}

\* a link to the note of stem target shown as display, in either output
LinkTo(target, display, output_format) ==
    IF output_format = FormatOrg
    THEN <<"[", "[", "f", "i", "l", "e", ":">> \o target \o <<".", "o", "r", "g", "]", "[">> \o display \o <<"]", "]">>
    ELSE <<"[">> \o display \o <<"]", "(">> \o target \o <<".", "m", "d", ")">>

\* the target that the claim gives the link of out_files[k] to target: the
\* Denote stem of the note of that stem when it was converted no later than
\* out_files[k], the target itself otherwise
C7_Target(target, k) ==
    IF RecordedBy(target, k) # 0
    THEN PathStem(out_files[RecordedBy(target, k)].path.name)
    ELSE target

\* C7: within one walk, with links being rewritten, a wiki-link of note A to
\* the stem of note B is written with B's Denote stem if and only if B was
\* recorded in the file mapping before A's links were rewritten (B came
\* earlier in the walk or is A itself); otherwise it keeps its target.
C7_LinkOrder ==
    ~arg.cfg.preserve_links =>
        \A k \in 1..Len(out_files) :
            \A l \in NoteLinks(NoteText(out_files[k].src)) :
                Contains(out_files[k].content,
                         LinkTo(C7_Target(l[1], k), l[2], arg.cfg.output_format))

\* the calls of copy_asset that were the first for their source
FirstCalls(calls) ==
    LET first == {c \in 1..Len(calls) : \A b \in 1..(c - 1) : calls[b][1] # calls[c][1]}
        nth(n) == CHOOSE c \in first : Cardinality({b \in first : b <= c}) = n
    IN [n \in 1..Cardinality(first) |-> calls[nth(n)]]

HexDigits == {"0", "1", "2", "3", "4", "5", "6", "7", "8", "9",
              "a", "b", "c", "d", "e", "f"}

\* whether dest is <assets_dir>/<stem>_<8 hex digits><ext> for the file name
DestShaped(dest, name) ==
    LET head == AssetsDir \o <<"/">> \o PathStem(name) \o <<"_">>
    IN /\ StartsWith(dest, head)
       /\ Len(dest) = Len(head) + 8 + Len(PathSuffix(name))
       /\ \A i \in 1..8 : dest[Len(head) + i] \in HexDigits
       /\ EndsWith(dest, PathSuffix(name))

\* a reference rewritten to dest, as far as both links and images go
RefTo(dest, output_format) ==
    IF output_format = FormatOrg
    THEN <<"[", "[", "f", "i", "l", "e", ":">> \o dest \o <<"]">>
    ELSE <<"]", "(">> \o dest \o <<")">>

\* C8: in copy mode, over the notes converted so far, each source asset is
\* copied once, at its first reference, later references copy nothing, and
\* every reference to it is rewritten, in the file written, to one
\* destination <assets_dir>/<stem>_<8 hex digits><ext>.
C8_CopiedOnce ==
    /\ asset_state.copies = FirstCalls(asset_state.calls)
    /\ \A c \in 1..Len(asset_state.calls) :
          /\ \E a \in AllAssets : /\ PathStr(a) = asset_state.calls[c][1]
                                  /\ DestShaped(asset_state.calls[c][2], a.name)
          /\ \A b \in 1..Len(asset_state.calls) :
                asset_state.calls[b][1] = asset_state.calls[c][1]
                    => asset_state.calls[b][2] = asset_state.calls[c][2]
    /\ \A k \in 1..Len(out_files) :
          \A c \in 1..Len(out_files[k].assets) :
              Contains(out_files[k].content,
                       RefTo(out_files[k].assets[c][2], arg.cfg.output_format))

\* the notes that the walk is done with
NotesDone == {md_files.l[i] : i \in 1..idx}

\* the tag segment of a Denote file name: what follows the first __
TagSegment(name) ==
    IF Contains(name, <<"_", "_">>) THEN SliceFrom(name, Find(name, <<"_", "_">>, 0) + 2) ELSE <<>>

\* C9: with add_folder_tags, every note in a subfolder is written with each
\* slugified name of its relative folder path among its tags, in the tag
\* segment of the file name and in the header.
C9_FolderTags ==
    (md_files # None /\ arg.cfg.add_folder_tags) =>
        \A note \in NotesDone :
            \E k \in 1..Len(out_files) :
                /\ out_files[k].src = note
                /\ \A t \in items_of(folder_tags(relative_parent(note, arg.cfg))) :
                      /\ t \in items_of(out_files[k].tags)
                      /\ Contains(TagSegment(out_files[k].path.name), t)

\* C10: without preserve_structure every file is written in the output
\* root; with it the file of a note at <dirs>/<name>.md is written to
\* <output root>/<dirs>/<denote filename>, and those directories were made.
C10_OutputPlace ==
    \A k \in 1..Len(out_files) :
        LET rel == relative_parent(out_files[k].src, arg.cfg)
        IN /\ out_files[k].path.name = converted_files[k][2].name
           /\ StartsWith(out_files[k].path.name,
                         strftime(NoteMtime(out_files[k].src), TRUE) \o <<"-", "-">>)
           /\ IF arg.cfg.preserve_structure
              THEN /\ out_files[k].path.dirs = arg.cfg.output_dir \o rel
                   /\ \A n \in 0..Len(rel) :
                         arg.cfg.output_dir \o SubSeq(rel, 1, n) \in dirs_made
              ELSE /\ out_files[k].path.dirs = arg.cfg.output_dir
                   /\ arg.cfg.output_dir \in dirs_made

\* a note two folders down was written two folders down in the output
C10_Witness ==
    /\ fn = "convert_directory"
    /\ arg.cfg.preserve_structure
    /\ \E k \in 1..Len(out_files) :
          /\ out_files[k].src = NoteC
          /\ out_files[k].path.dirs = OutputDir \o << <<"s">>, <<"t">> >>
          /\ out_files[k].path.dirs \in dirs_made


\* the notes of the pairs of a list of <<note, output path>>
SourcesOf(pairs) == [k \in 1..Len(pairs) |-> pairs[k][1]]

\* the notes among the first n of the walk for which the loop body does not raise
Succeeded(n) ==
    LET ok(f) == ~raises_before_convert(f, relative_parent(f, arg.cfg), arg.cfg, walk_fs)
    IN SelectSeq(SubSeq(md_files.l, 1, n), ok)

\* C11: convert_directory attempts every listed file once and goes to the
\* end of the list; a failure for one file is caught and stops no later
\* file; the list returned holds exactly the files converted, in walk order.
C11_WalkContinues ==
    (fn = "convert_directory" /\ md_files # None) =>
        /\ idx <= Len(md_files.l)
        /\ SourcesOf(converted_files) = Succeeded(idx)
        /\ SourcesOf(converted_files) = [k \in 1..Len(out_files) |-> out_files[k].src]
        /\ \A k \in 1..Len(converted_files) : converted_files[k][2] = out_files[k].path
        /\ ret # NoRet => /\ idx = Len(md_files.l)
                          /\ ret = PyList(converted_files)

\* the walk returned after a file failed and a later file was converted
C11_Witness ==
    /\ fn = "convert_directory"
    /\ ret # NoRet
    /\ \E i, j \in 1..Len(md_files.l) :
          /\ i < j
          /\ \A k \in 1..Len(ret.l) : ret.l[k][1] # md_files.l[i]
          /\ \E k \in 1..Len(ret.l) : ret.l[k][1] = md_files.l[j]


\* C12: after a walk in which every note was converted, the output
\* directory holds as many files as there are notes: no two notes of the
\* walk were written to the same path.
C12_OneFilePerNote ==
    (fn = "convert_directory" /\ ret # NoRet /\ Len(ret.l) = Len(md_files.l)) =>
        /\ Len(ret.l) = Cardinality(arg.vault.notes)
        /\ Cardinality({out_files[k].path : k \in 1..Len(out_files)})
              = Cardinality(arg.vault.notes)


(***************************************************************************)
(* Harness: process_assets, called for a note of the vault of the walk     *)
(* with a text made of up to MaxAssetChunks pieces, by a converter that    *)
(* has copied nothing or one file before.                                  *)
(***************************************************************************)
MaxAssetChunks == 2

AssetChunks ==
    { <<"x", " ">>, <<"!", "[", "[", "i", ".", "p", "n", "g", "]", "]">>, <<"!", "[", "p", "]", "(", "i", ".", "p", "n", "g", ")">>, <<"[", "[", "d", ".", "p", "d", "f", "]", "]">>, <<"[", "[", "b", "]", "]">>, <<"!", "[", "[", "z", "z", ".", "p", "n", "g", "]", "]">> }

AssetContents == {Concat(cs) : cs \in SeqsUpTo(AssetChunks, MaxAssetChunks)}

\* the copy_asset state of a converter that has copied nothing, or ImageTop
AssetStatesBefore ==
    {AssetState(<<>>, <<>>, <<>>),
     copy_asset(ImageTop, AssetState(<<>>, <<>>, <<>>)).st}

InitAssets ==
    /\ fn = "process_assets"
    /\ arg \in [content : AssetContents, source_dir : {InputDir, DirS},
                markers : { {}, {InputDir} }, is_org : BOOLEAN,
                assets_handling : {HandlingCopy, HandlingLink, HandlingIgnore},
                output_dir : {OutputDir}, st : AssetStatesBefore]
    /\ ret = NoRet
    /\ file_mapping = <<>>
    /\ asset_state = arg.st
    /\ md_files = None
    /\ idx = 0
    /\ converted_files = <<>>
    /\ out_files = <<>>
    /\ dirs_made = {OutputDir}

\* what the call leaves behind, pa being what process_assets returned
AssetsProcessed(pa) ==
    /\ ret' = PyStr(pa.out)
    /\ asset_state' = pa.st

CallAssets ==
    /\ fn = "process_assets"
    /\ ret = NoRet
    /\ AssetsProcessed(process_assets(arg.content,
                                      AssetEnv(arg.source_dir, arg.is_org,
                                               arg.assets_handling,
                                               FileSystem({}, arg.markers)),
                                      asset_state))
    /\ dirs_made' = dirs_made \cup assets_dir_made(arg.assets_handling, arg.output_dir)
    /\ UNCHANGED <<fn, arg, file_mapping, md_files, idx, converted_files, out_files>>

SpecAssets == InitAssets /\ [][CallAssets]_vars

\* C15: with assets handling ignore, process_assets returns its content
\* unchanged, whatever embeds, images and attachment links it holds, and
\* leaves the asset mapping, the files copied and the directories as they were.
C15_IgnoreUntouched ==
    (fn = "process_assets" /\ arg.assets_handling = HandlingIgnore) =>
        /\ asset_state = arg.st
        /\ dirs_made = {OutputDir}
        /\ ret # NoRet => ret = PyStr(arg.content)

\* a text with an embed, an image or an attachment link of an existing
\* file went through process_assets in ignore mode
C15_Witness ==
    /\ fn = "process_assets"
    /\ arg.assets_handling = HandlingIgnore
    /\ ret # NoRet
    /\ \/ Contains(arg.content, <<"!", "[", "[", "i", ".", "p", "n", "g", "]", "]">>)
       \/ Contains(arg.content, <<"!", "[", "p", "]", "(", "i", ".", "p", "n", "g", ")">>)
       \/ Contains(arg.content, <<"[", "[", "d", ".", "p", "d", "f", "]", "]">>)
    /\ ret.s = arg.content


(***************************************************************************)
(* main, from line 626 on: the arguments are parsed and the converter is   *)
(* built.  fn is the function that is running: main hands over to          *)
(* convert_directory and goes on when that has returned.                   *)
(***************************************************************************)
\* input_path.is_file()
is_file(path, fs) == path \in fs.files

\* input_path.is_dir(): a directory is there when it is the vault's or
\* holds a file
is_dir(path, fs) ==
    \/ Append(path.dirs, path.name) = InputDir
    \/ \E f \in fs.files : IsPrefix(Append(path.dirs, path.name), f.dirs)

\* the paths that main is given: the vault, a note of it, a path that
\* nothing is at
VaultPath == PathOf(<<>>, <<"v">>)
NoPath == PathOf(InputDir, <<"q">>)

\* the command lines of the model: asset handling is the default, copy
MainConfigs == {c \in WalkConfigs : c.assets_handling = HandlingCopy}

\* what main leaves to the caller: the value returned, which exit() makes
\* the exit code, and the last line printed
Exit(code, printed) == [t |-> "exit", code |-> code, printed |-> printed]

NotValid == <<" ", "i", "s", " ", "n", "o", "t", " ", "a", " ", "v", "a", "l", "i", "d", " ", "f", "i", "l", "e", " ", "o", "r", " ", "d", "i", "r", "e", "c", "t", "o", "r", "y">>

InitMain ==
    /\ fn = "main"
    /\ \E cfg \in MainConfigs, vault \in WalkVaults :
          \E input \in {VaultPath, NoPath} \cup vault.notes :
              arg = [cfg |-> cfg, vault |-> vault, input |-> input]
    /\ ret = NoRet
    /\ InitConverter

\* lines 651-653
MainInvalid ==
    /\ fn = "main"
    /\ ret = NoRet
    /\ ~is_file(arg.input, walk_fs)
    /\ ~is_dir(arg.input, walk_fs)
    /\ ret' = Exit(1, <<"E", "r", "r", "o", "r", ":", " ">> \o PathStr(arg.input) \o NotValid)
    /\ UNCHANGED <<fn, arg>>
    /\ UNCHANGED walk_vars

\* what lines 629-632 leave behind when convert_file returned r
FileConverted(r) ==
    /\ file_mapping' = r.file_mapping
    /\ asset_state' = r.st
    /\ out_files' = Append(out_files, Written(arg.input, r))
    /\ dirs_made' = dirs_made \cup {arg.cfg.output_dir} \cup r.dirs_made
    /\ ret' = Exit(0, <<"C", "o", "n", "v", "e", "r", "t", "e", "d", ":", " ">> \o arg.input.name \o <<" ", "-", ">", " ">> \o r.denote_filename)

\* lines 628-632 and 655: convert_file is called without relative_path and
\* without preserve_structure
MainConvertFile ==
    /\ fn = "main"
    /\ ret = NoRet
    /\ is_file(arg.input, walk_fs)
    /\ \E tags \in Orderings(file_tag_set(arg.input, arg.cfg, walk_fs, asset_state)) :
          FileConverted(convert_file(arg.input, <<>>,
                                     [arg.cfg EXCEPT !.preserve_structure = FALSE],
                                     walk_fs, file_mapping, asset_state, tags))
    /\ UNCHANGED <<fn, arg, md_files, idx, converted_files>>

\* lines 633-634: convert_directory is entered
MainCallsDirectory ==
    /\ fn = "main"
    /\ ret = NoRet
    /\ ~is_file(arg.input, walk_fs)
    /\ is_dir(arg.input, walk_fs)
    /\ fn' = "convert_directory"
    /\ UNCHANGED <<arg, ret>>
    /\ UNCHANGED walk_vars

\* the last line that the directory branch prints (lines 645-650)
structure_line(cfg) ==
    IF cfg.preserve_structure THEN <<"D", "i", "r", "e", "c", "t", "o", "r", "y", " ", "s", "t", "r", "u", "c", "t", "u", "r", "e", " ", "p", "r", "e", "s", "e", "r", "v", "e", "d", " ", "i", "n", " ", "o", "u", "t", "p", "u", "t">>
    ELSE IF cfg.add_folder_tags
    THEN <<"F", "l", "a", "t", "t", "e", "n", "e", "d", " ", "s", "t", "r", "u", "c", "t", "u", "r", "e", " ", "w", "i", "t", "h", " ", "f", "o", "l", "d", "e", "r", " ", "n", "a", "m", "e", "s", " ", "a", "d", "d", "e", "d", " ", "a", "s", " ", "t", "a", "g", "s">>
    ELSE <<"F", "l", "a", "t", "t", "e", "n", "e", "d", " ", "t", "o", " ", "s", "i", "n", "g", "l", "e", " ", "d", "i", "r", "e", "c", "t", "o", "r", "y", " ", "(", "D", "e", "n", "o", "t", "e", " ", "d", "e", "f", "a", "u", "l", "t", ")">>

\* lines 640-650 and 655 with a failed file making the exit code 1
MainAfterDirectory_strict ==
    /\ fn = "convert_directory"
    /\ ret # NoRet
    /\ fn' = "main"
    /\ ret' = Exit(IF Len(ret.l) = Len(md_files.l) THEN 0 ELSE 1, structure_line(arg.cfg))
    /\ UNCHANGED arg
    /\ UNCHANGED walk_vars

\* lines 640-650 and 655: convert_directory has returned
MainAfterDirectory ==
    /\ fn = "convert_directory"
    /\ ret # NoRet
    /\ fn' = "main"
    /\ ret' = Exit(0, structure_line(arg.cfg))
    /\ UNCHANGED arg
    /\ UNCHANGED walk_vars

NextMain ==
    \/ MainInvalid
    \/ MainConvertFile
    \/ MainCallsDirectory
    \/ GlobFiles
    \/ ConvertNextFile
    \/ ConvertNextRaises
    \/ ReturnConverted
    \/ MainAfterDirectory

SpecMain == InitMain /\ [][NextMain]_vars

\* C16: main returns 0 when the input is a file or a directory and the
\* conversion came to its end, also when files failed during the walk; for
\* an input that is neither it returns a value other than 0, prints `not a
\* valid file or directory` and writes nothing.
C16_ExitCode ==
    (fn = "main" /\ ret # NoRet) =>
        IF is_file(arg.input, walk_fs) \/ is_dir(arg.input, walk_fs)
        THEN ret.code = 0
        ELSE /\ ret.code # 0
             /\ Contains(ret.printed, <<"n", "o", "t", " ", "a", " ", "v", "a", "l", "i", "d", " ", "f", "i", "l", "e", " ", "o", "r", " ", "d", "i", "r", "e", "c", "t", "o", "r", "y">>)
             /\ out_files = <<>>
             /\ asset_state.copies = <<>>
             /\ dirs_made = {}

\* main returned after a walk in which a file failed
C16_Witness ==
    /\ fn = "main"
    /\ ret # NoRet
    /\ md_files # None
    /\ Len(converted_files) < Len(md_files.l)
    /\ ret.code = 0


(***************************************************************************)
(* Harness: convert_to_org, for a note without metadata and tags and a     *)
(* text of up to MaxOrgLines pieces, each a line or a fenced code block.   *)
(***************************************************************************)
MaxOrgLines == 2

OrgLines ==
    { <<"#", " ", "H">>, <<"#", "#", " ", "S", " ", "[", "[", "b", "]", "]">>, <<"#", "#", "#", "x", " ">>, <<"#">>, CodeFence,
      <<"-", " ", "[", " ", "]", " ", "x">>, <<" ", " ", "-", " ", "[", "x", "]", " ", "*", "y", "*", " ", "z">>, <<"-", " ", "[", "x", "]", " ", "a", "_", "b", "_", "c">>, <<"p", " ", "[", "[", "b", "|", "c", "]", "]">>,
      <<"*", "*", "t", "*", "*", " ", "x">>, <<"_", "_", "t", "_", "_">>, <<"*", "t", "*", " ", "_", "u", "_">>, <<"~", "~", "t", "~", "~", " ", "´", "q", "´">>,
      <<"´", "´", "´", "p", "y", "\n", "[", "[", "b", "]", "]", " ", "*", "*", "t", "*", "*", "\n", "´", "´", "´">>, <<"´", "´", "´", "\n", "#", " ", "h", "\n", "-", " ", "[", "x", "]", " ", "y", "\n", "´", "´", "´">> }

OrgContents ==
    {Join(<<"\n">>, ls) : ls \in SeqsUpTo(OrgLines, MaxOrgLines) \ {<<>>}}

OrgTitle == <<"t">>

InitOrg ==
    /\ fn = "convert_to_org"
    /\ arg \in [content : OrgContents, metadata : {None}, title : {OrgTitle},
                tags : {<<>>}]
    /\ ret = NoRet
    /\ InitConverter

CallOrg ==
    /\ fn = "convert_to_org"
    /\ ret = NoRet
    /\ ret' = PyStr(convert_to_org(arg.content, arg.metadata, arg.title, arg.tags,
                                  Today, file_mapping))
    /\ UNCHANGED <<fn, arg>>
    /\ UNCHANGED walk_vars

SpecOrg == InitOrg /\ [][CallOrg]_vars

OrgReturned == fn = "convert_to_org" /\ ret # NoRet

\* the lines given and the lines returned; the header of a note without
\* metadata and tags has three lines: title, date and an empty line
OrgArgLines == Split(arg.content, "\n")
OrgOutLines == Split(ret.s, "\n")
OrgOutLine(i) == OrgOutLines[3 + i]

\* whether line i of the text lies in a code block: an odd number of fence
\* lines comes before it
OrgInCode(i) ==
    Cardinality({j \in 1..(i - 1) : StartsWith(OrgArgLines[j], CodeFence)}) % 2 = 1

\* the lines of the text that are outside code blocks and no fence lines
OrgOutside ==
    {i \in 1..Len(OrgArgLines) :
        ~OrgInCode(i) /\ ~StartsWith(OrgArgLines[i], CodeFence)}

\* the number of # that line starts with
HeadingDepth(line) ==
    Cardinality({n \in 1..Len(line) : \A k \in 1..n : line[k] = "#"})

\* n stars
Stars(n) == [k \in 1..n |-> "*"]

\* C17: a line outside code blocks that starts with n >= 1 # is returned as
\* n stars, a space and its heading text (the rest of the line less the
\* white space around it); wiki-links in the heading text are rewritten as
\* in the rest of the note.
C17_Headings ==
    OrgReturned =>
        /\ Len(OrgOutLines) = 3 + Len(OrgArgLines)
        /\ \A i \in OrgOutside :
              LET line == OrgArgLines[i]
                  n == HeadingDepth(line)
                  text == Strip(SliceFrom(line, n), SpaceChars)
              IN n >= 1 =>
                    /\ OrgOutLine(i) = Stars(n) \o <<" ">>
                                       \o convert_links(text, TRUE, FALSE, file_mapping)
                    /\ ~Contains(text, <<"[", "[">>) =>
                          OrgOutLine(i) = Stars(n) \o <<" ">> \o text

\* a text with a heading of depth 2 outside code blocks was converted
C17_Witness ==
    /\ OrgReturned
    /\ \E i \in OrgOutside :
          /\ HeadingDepth(OrgArgLines[i]) = 2
          /\ StartsWith(OrgOutLine(i), <<"*", "*", " ", "S", " ">>)

\* C17 as stated: every heading line outside code blocks is returned as
\* n stars, a space and the very heading text it had.
C17_SameText ==
    OrgReturned =>
        \A i \in OrgOutside :
            LET line == OrgArgLines[i]
                n == HeadingDepth(line)
            IN n >= 1 =>
                  OrgOutLine(i) = Stars(n) \o <<" ">>
                                  \o Strip(SliceFrom(line, n), SpaceChars)

\* the line that convert_to_org returns for a text of the one line text
OrgInline(text) ==
    Split(convert_to_org(text, None, OrgTitle, <<>>, Today, file_mapping), "\n")[4]

\* the characters of inline markup and links
MarkupChars == {"*", "_", "~", "[", "]", Backtick}

\* C18: a checkbox line outside code blocks keeps its indentation and its
\* item text, converted like any other text; `- [ ] x` is returned as it
\* is and `- [x] y` with an upper-case X.
C18_Checkboxes ==
    OrgReturned =>
        \A i \in OrgOutside :
            LET line == OrgArgLines[i]
                w == LeadingSpace(line)
                checked == MatchAt(line, <<"-", " ", "[", "x", "]", " ">>, w)
                unchecked == MatchAt(line, <<"-", " ", "[", " ", "]", " ">>, w)
                text == SliceFrom(line, w + 6)
                box == IF checked THEN <<"-", " ", "[", "X", "]", " ">> ELSE <<"-", " ", "[", " ", "]", " ">>
            IN (checked \/ unchecked) =>
                  /\ OrgOutLine(i) = Slice(line, 0, w) \o box \o OrgInline(text)
                  /\ (\A k \in 1..Len(text) : text[k] \notin MarkupChars) =>
                        OrgOutLine(i) = Slice(line, 0, w) \o box \o text
                  /\ (unchecked /\ \A k \in 1..Len(text) : text[k] \notin MarkupChars) =>
                        OrgOutLine(i) = line

\* an indented checked checkbox line outside code blocks was converted
C18_Witness ==
    /\ OrgReturned
    /\ \E i \in OrgOutside :
          /\ MatchAt(OrgArgLines[i], <<"-", " ", "[", "x", "]", " ">>, 2)
          /\ StartsWith(OrgOutLine(i), <<" ", " ", "-", " ", "[", "X", "]", " ">>)


\* C18 as stated: every checkbox line outside code blocks is returned with
\* its indentation and the very item text it had, `[x]` as `[X]`.
C18_SameText ==
    OrgReturned =>
        \A i \in OrgOutside :
            LET line == OrgArgLines[i]
                w == LeadingSpace(line)
                checked == MatchAt(line, <<"-", " ", "[", "x", "]", " ">>, w)
                unchecked == MatchAt(line, <<"-", " ", "[", " ", "]", " ">>, w)
            IN /\ unchecked => OrgOutLine(i) = line
               /\ checked => OrgOutLine(i) = Slice(line, 0, w) \o <<"-", " ", "[", "X", "]", " ">>
                                             \o SliceFrom(line, w + 6)


(***************************************************************************)
(* Harness: find_asset, called for a reference from a directory of the     *)
(* vault /v that holds up to MaxAssetFiles files named i.png; rglob meets  *)
(* the files in any order (scan: an ordering of the files).                *)
(***************************************************************************)
MaxAssetFiles == 2

FindRef == <<"i", ".", "p", "n", "g">>

FindFiles ==
    {PathOf(DirT, FindRef), PathOf(DirS, FindRef), PathOf(InputDir, FindRef),
     ImageTop,
     PathOf(Append(InputDir, <<"F", "i", "l", "e", "s">>), FindRef),
     PathOf(Append(DirT, <<"a", "t", "t", "a", "c", "h", "m", "e", "n", "t", "s">>), FindRef),
     PathOf(Append(DirT, <<"i", "m", "a", "g", "e", "s">>), FindRef),
     PathOf(Append(InputDir, <<"x">>), FindRef)}

FindArgs ==
    UNION {[file_ref : {FindRef, <<"z", "z", ".", "p", "n", "g">>, <<"i", ".", "p", "n", "g", "|", "p">>},
            source_dir : {InputDir, DirS, DirT},
            input_dir : {InputDir},
            files : {S}, scan : Orderings(S),
            markers : { {}, {InputDir}, {DirS} }] :
           S \in {T \in SUBSET FindFiles : Cardinality(T) <= MaxAssetFiles}}

\* the file system that arg describes
FindFs == [files |-> arg.files, markers |-> arg.markers, scan |-> arg.scan]

InitFindAsset ==
    /\ fn = "find_asset"
    /\ arg \in FindArgs
    /\ ret = NoRet
    /\ InitConverter

CallFindAsset ==
    /\ fn = "find_asset"
    /\ ret = NoRet
    /\ ret' = find_asset(arg.file_ref, arg.source_dir, FindFs)
    /\ UNCHANGED <<fn, arg>>
    /\ UNCHANGED walk_vars

SpecFindAsset == InitFindAsset /\ [][CallFindAsset]_vars

\* the seven folder names, in the order of the list
AssetFolders ==
    <<<<"a", "t", "t", "a", "c", "h", "m", "e", "n", "t", "s">>, <<"A", "t", "t", "a", "c", "h", "m", "e", "n", "t", "s">>, <<"a", "s", "s", "e", "t", "s">>, <<"A", "s", "s", "e", "t", "s">>, <<"i", "m", "a", "g", "e", "s">>,
      <<"I", "m", "a", "g", "e", "s">>, <<"F", "i", "l", "e", "s">>>>

\* the nearest directory from source_dir upwards that holds .obsidian, and
\* input_dir when none does
NearestVaultRoot(source_dir, input_dir, markers) ==
    LET found == {n \in 1..Len(source_dir) : SubSeq(source_dir, 1, n) \in markers}
    IN IF found = {} THEN input_dir
       ELSE SubSeq(source_dir, 1, CHOOSE n \in found : \A m \in found : m <= n)

\* the reference under the note's directory, under the vault root, under
\* each of the seven folders of the vault root, and under each of the seven
\* folders of the note's directory
OrderedCandidates(ref, current_dir, vault_root) ==
    <<JoinRef(current_dir, ref), JoinRef(vault_root, ref)>>
    \o [k \in 1..7 |-> JoinRef(Append(vault_root, AssetFolders[k]), ref)]
    \o [k \in 1..7 |-> JoinRef(Append(current_dir, AssetFolders[k]), ref)]

\* C19: find_asset returns the first existing file among the reference
\* under the note's directory, under the vault root, under the seven
\* folders of the vault root and of the note's directory, and otherwise a
\* file of that name somewhere under the vault root, or nothing when there
\* is none; the vault root is the nearest ancestor with .obsidian and the
\* input directory when there is none.
C19_ResolutionOrder ==
    (fn = "find_asset" /\ ret # NoRet) =>
        LET ref == clean_ref(arg.file_ref)
            root == NearestVaultRoot(arg.source_dir, arg.input_dir, arg.markers)
            cands == OrderedCandidates(ref, arg.source_dir, root)
            hits == {k \in 1..Len(cands) : cands[k] \in arg.files}
            named == {f \in arg.files : f.name = ref /\ IsPrefix(root, f.dirs)}
        IN IF hits # {} THEN ret = cands[Least(hits)]
           ELSE IF named # {} THEN ret \in named
           ELSE ret = None


RECURSIVE C20_Expected(_)
\* the text with every embed ![[ref]] written as [[file:ref]] and every
\* other piece as convert_links returns it
C20_Expected(chunks) ==
    IF chunks = <<>> THEN <<>>
    ELSE (IF Head(chunks).k = "embed"
          THEN <<"[", "[", "f", "i", "l", "e", ":">> \o Head(chunks).ref \o <<"]", "]">>
          ELSE convert_links(Render(Head(chunks)), arg.is_org, arg.preserve_links,
                             arg.file_mapping))
         \o C20_Expected(Tail(chunks))

\* C20: for org output convert_links returns every embed ![[ref]] of its
\* text as [[file:ref]], without the `!`, without .org and without a
\* description.
C20_EmbedsRaw ==
    (fn = "convert_links" /\ ret # NoRet /\ arg.is_org) =>
        ret.s = C20_Expected(arg.chunks)


\* the markdown delimiters and the org delimiter of the same meaning, the
\* two-character ones first
InlineMarks ==
    <<[md |-> <<"*", "*">>, org |-> <<"*">>], [md |-> <<"_", "_">>, org |-> <<"*">>],
      [md |-> <<"~", "~">>, org |-> <<"+">>], [md |-> <<"*">>, org |-> <<"/">>],
      [md |-> <<"_">>, org |-> <<"/">>], [md |-> <<Backtick>>, org |-> <<"~">>]>>

\* the marks that open a span at 0-based offset i of s: the delimiter
\* stands there and again after at least one character
SpansAt(s, i) ==
    {k \in 1..Len(InlineMarks) :
        /\ MatchAt(s, InlineMarks[k].md, i)
        /\ Find(s, InlineMarks[k].md, i + Len(InlineMarks[k].md) + 1) # -1}

RECURSIVE RemapOnce(_, _)
\* s from offset i on with every span remapped once, from left to right:
\* the text of a span is written between the org delimiters as it is
RemapOnce(s, i) ==
    IF i >= Len(s) THEN <<>>
    ELSE IF SpansAt(s, i) = {} THEN <<s[i + 1]>> \o RemapOnce(s, i + 1)
    ELSE LET m == InlineMarks[Least(SpansAt(s, i))]
             from == i + Len(m.md)
             to == Find(s, m.md, from + 1)
         IN m.org \o Slice(s, from, to) \o m.org \o RemapOnce(s, to + Len(m.md))

\* the lines outside code blocks that are neither headings nor list items
OrgPlain ==
    {i \in OrgOutside :
        /\ OrgArgLines[i] # <<>>
        /\ OrgArgLines[i][1] \notin {"#", "-", "+", " "}
        /\ ~MatchAt(OrgArgLines[i], <<"*", " ">>, 0)}

\* C21: on every line outside code blocks each span of inline markup is
\* remapped once to the org syntax of the same meaning: bold to *t*, italic
\* to /t/, strikethrough to +t+, inline code to ~t~.
C21_RemappedOnce ==
    OrgReturned =>
        \A i \in OrgPlain :
            OrgOutLine(i) = convert_links(RemapOnce(OrgArgLines[i], 0), TRUE, FALSE,
                                          file_mapping)


\* whether line i of the text is a fence line
OrgFence(i) == StartsWith(OrgArgLines[i], CodeFence)

\* the lines between an opening fence and its closing fence
OrgInterior ==
    {i \in 1..Len(OrgArgLines) :
        /\ OrgInCode(i)
        /\ ~OrgFence(i)
        /\ \E j \in (i + 1)..Len(OrgArgLines) : OrgFence(j)}

\* C22: an opening fence is returned as #+BEGIN_SRC and its language tag,
\* a closing fence as #+END_SRC, and every line between the two character
\* for character as it was, whatever syntax it holds.
C22_CodeVerbatim ==
    OrgReturned =>
        /\ \A i \in 1..Len(OrgArgLines) :
              OrgFence(i) =>
                 OrgOutLine(i) = IF OrgInCode(i) THEN <<"#", "+", "E", "N", "D", "_", "S", "R", "C">>
                                 ELSE <<"#", "+", "B", "E", "G", "I", "N", "_", "S", "R", "C", " ">>
                                      \o Strip(SliceFrom(OrgArgLines[i], 3), SpaceChars)
        /\ \A i \in OrgInterior : OrgOutLine(i) = OrgArgLines[i]


(***************************************************************************)
(* Harness: the header of convert_to_org, for the metadata of the file     *)
(* name harness and a text of one line.                                    *)
(***************************************************************************)
InitOrgHeader ==
    /\ fn = "convert_to_org"
    /\ arg \in [content : { <<"x">> }, metadata : FnMetadata, title : {OrgTitle},
                tags : {<<>>, <<Tag1>>}]
    /\ ret = NoRet
    /\ InitConverter

CallOrgHeader ==
    /\ fn = "convert_to_org"
    /\ ret = NoRet
    /\ ret' = PyStr(convert_to_org(arg.content, arg.metadata, arg.title, arg.tags,
                                  Today, file_mapping))
    /\ UNCHANGED <<fn, arg>>
    /\ UNCHANGED walk_vars

SpecOrgHeader == InitOrgHeader /\ [][CallOrgHeader]_vars

\* the keys of the metadata other than title, tags and aliases, in the
\* order of the metadata
OtherKeys ==
    IF arg.metadata = None THEN <<>>
    ELSE SelectSeq(arg.metadata.keys,
                   LAMBDA k : k \notin {KeyTitle, KeyTags, KeyAliases})

\* the lines returned that are :PROPERTIES: and :END:
PropertiesAt == {i \in 1..Len(OrgOutLines) : OrgOutLines[i] = <<":", "P", "R", "O", "P", "E", "R", "T", "I", "E", "S", ":">>}
EndAt == {i \in 1..Len(OrgOutLines) : OrgOutLines[i] = <<":", "E", "N", "D", ":">>}

\* C23: the header holds a :PROPERTIES: ... :END: block exactly when the
\* metadata has a key other than title, tags and aliases, and the block
\* lists exactly those keys, upper-cased, each with its value.
C23_PropertiesBlock ==
    OrgReturned =>
        /\ (PropertiesAt # {}) <=> (OtherKeys # <<>>)
        /\ PropertiesAt # {} =>
              /\ Cardinality(PropertiesAt) = 1 /\ Cardinality(EndAt) = 1
              /\ LET p == Least(PropertiesAt)
                     e == Least(EndAt)
                 IN /\ e = p + Len(OtherKeys) + 1
                    /\ \A k \in 1..Len(OtherKeys) :
                          OrgOutLines[p + k] =
                             <<":">> \o UpperAll(OtherKeys[k]) \o <<":", " ">>
                             \o Format(arg.metadata.d[OtherKeys[k]])


\* the copies made for out_files[k] of image files; the notes of the vault
\* refer to them by embeds ![[i.png]] and images ![p](i.png) only
ImageCopies(k) ==
    {c \in 1..Len(out_files[k].assets) :
        EndsWith(out_files[k].assets[c][1], <<".", "p", "n", "g">>)}

\* C24: for org output in copy mode, the file written for a note with a
\* resolved embed or image holds the link [[file:<dest>]], <dest> being the
\* destination recorded for the asset: the stages after process_assets
\* leave the link as it is.
C24_AssetLinkKept ==
    (arg.cfg.output_format = FormatOrg /\ arg.cfg.assets_handling = HandlingCopy) =>
        \A k \in 1..Len(out_files) :
            \A c \in ImageCopies(k) :
                Contains(out_files[k].content,
                         <<"[", "[", "f", "i", "l", "e", ":">> \o out_files[k].assets[c][2] \o <<"]", "]">>)


\* C25: in copy mode, every asset reference written in an output note,
\* read as a path relative to the directory of that note, names the file
\* that copy_asset wrote under <output_dir>/<assets_dir>/, with and without
\* preserve_structure and at any depth.
C25_ReferenceResolves ==
    arg.cfg.assets_handling = HandlingCopy =>
        \A k \in 1..Len(out_files) :
            \A c \in 1..Len(out_files[k].assets) :
                LET dest == out_files[k].assets[c][2]
                IN Contains(out_files[k].content, dest) =>
                      JoinRef(out_files[k].path.dirs, dest)
                         = JoinRef(arg.cfg.output_dir, dest)


\* the entries of the tag segment of the file name returned: what stands
\* between the __ after the slug and the extension, split at _
FnSegmentEntries ==
    LET from == 17 + Len(slugify(PyStr(ret.title)))
        rest == Slice(ret.filename, from, Len(ret.filename) - Len(FnExt))
    IN IF StartsWith(rest, <<"_", "_">>) THEN Split(SliceFrom(rest, 2), "_") ELSE <<>>

\* C26: the tag segment of the file name lists each slugified tag at most
\* once: no two of its entries are equal.
C26_TagsOnce ==
    FnReturned =>
        \A i, j \in 1..Len(FnSegmentEntries) :
            i # j => FnSegmentEntries[i] # FnSegmentEntries[j]

====
